---- MODULE Spec2Model ----
(***************************************************************************)
(* A model of the GO-BACKTEST-AggTrades trade pipeline:                    *)
(*   - the GNC2 day-blob codec (encodeGNC / encodeChunk, and the shared    *)
(*     decoder inflateGNCToColumns), at byte level;                        *)
(*   - the Moments accumulator (CalcMomentsVectors, CalcMoments, Add);     *)
(*   - the day-parallel study scheduler (studySymbol);                     *)
(*   - the ingestion index store (processDay, updateIndex) and the blob    *)
(*     loaders that read it back.                                          *)
(* Each part has its own specification (SpecCodec, SpecMoments, ...); the  *)
(* variables of the other parts stay at their initial value.               *)
(***************************************************************************)
EXTENDS Integers, Sequences, FiniteSets, TLC

VARIABLES
    cDay,       \* codec: the IngestBuffers rows handed to encodeGNC
    cBlob,      \* codec: the blob bytes (as produced, then possibly damaged)
    cDec,       \* codec: what inflateGNCToColumns returned for cBlob
    cPhase,     \* codec: "input" | "encoded" | "encfail" | "fuzzed" | "decoded"
    cFuzzN,     \* codec: how many fields of cBlob have been overwritten
    mSig,       \* moments: the signal series of a day
    mRet,       \* moments: the forward-return series of the day
    mCut,       \* moments: <<c1, c2>>, the series is split at rows c1 <= c2
    mParts,     \* moments: CalcMoments of the three pieces and of the whole
    mOut,       \* moments: the merges of the pieces
    mRef,       \* moments: mParts and mOut as real arithmetic gives them
    mPhase,     \* moments: "input" | "calc" | "merged"
    sDays,      \* study: per task, the day's blob, signal and return series
    sBoundary,  \* study: oosBoundaryYMD, tasks from it on are out of sample
    sNext,      \* study: the next task index the dispatch loop sends
    sJobs,      \* study: jobsChan, and whether it is closed
    sW,         \* study: per worker, where it is and the result it holds
    sResults,   \* study: resultsChan, and whether it is closed
    sAcc,       \* study: the collector's aggregates, day counts and daily ICs
    sExact,     \* study: sAcc as real arithmetic gives it, and the merge order
    sPhase,     \* study: "run" | "done" | "crashed"
    iDays,      \* ingest: per day of the month, the length of the blob to store
    iIdx,       \* ingest: index.quantdev of the month's directory
    iData,      \* ingest: data.quantdev, per byte the day it belongs to
    iJobs,      \* ingest: the jobs channel, and the next day to send
    iMu,        \* ingest: the holder of the directory's mutex, 0 when free
    iW,         \* ingest: per worker, its place in processDay and its locals
    iStat,      \* ingest: per day, the string processDay returned
    iObs,       \* ingest: what a reader outside the process last saw
    lRow,       \* load: the offset and length fields of an index row (uint64)
    lSize,      \* load: the size of the month's data file
    lRes,       \* load: per reader of the row, its outcome and its file calls
    eDays,      \* encode run: the days one worker is handed, in order
    eNext,      \* encode run: the position of the next day
    eBufs,      \* encode run: the IngestBuffers last put back in the pool
    eData,      \* encode run: the bytes of data.quantdev
    eIdx,       \* encode run: the rows of index.quantdev
    eLog,       \* encode run: per day handled, what processDay returned
    pTasks,     \* pool: the outcome of each task, in dispatch order
    pFree,      \* pool: the DayColumns instances the pool holds
    pMade,      \* pool: the instances DayColumnPool.New has made
    pGone,      \* pool: the instances the pool dropped
    pW,         \* pool: per worker, its place in processStudyDay and its instance
    pPaths,     \* pool: the exit paths on which Put ran
    vHdr,       \* view: the fields of a TBV1 header
    vLen,       \* view: the length of the raw blob
    vRes,       \* view: what mapTradeBlock returned
    fSig,       \* finalize: the signal series the Moments are of
    fRet,       \* finalize: the return series
    fICs,       \* finalize: the daily ICs
    fStats,     \* finalize: the MetricStats FinalizeMetrics returned
    dKind,      \* which run: studySymbol, buildForSymbol, runData or RunTestForSymbol
    dOut,       \* outcome of each discovered task
    dNext,      \* next task the producer sends
    dJobs,      \* the dispatch queue
    dW,         \* the workers
    dRes,       \* the results queue
    dStop,      \* stopEvent
    dTimer,     \* the progress goroutine
    dDone,      \* doneChan closed
    dHist,      \* tasks taken, run and collected so far
    dPhase,     \* the main goroutine
    kCaller,    \* columns: which caller holds the pooled DayColumns
    kCols,      \* columns: the pooled DayColumns instance
    kIn,        \* columns: the day being decoded, and the rows the instance held when taken
    kPc,        \* columns: where the task is
    kN,         \* columns: tasks the instance has served
    aKind,      \* aggregation: merged by the collector (studySymbol) or by the workers (validateMonth, runStudy)
    aOut,       \* aggregation: whether each task has something to merge
    aNext,      \* aggregation: next task a worker takes
    aT,         \* aggregation: the threads, 0 the main goroutine
    aMu,        \* aggregation: the mutex, its holder
    aGlob,      \* aggregation: the global aggregation state
    aRes,       \* aggregation: the results channel
    aReport,    \* aggregation: what the report read
    uIn,        \* calls: the arguments of the call
    uMid,       \* calls: what the call holds between its steps (the sorted pairs, the file written)
    uOut,       \* calls: what the call returned
    uPc         \* calls: where the call is

codecVars == <<cDay, cBlob, cDec, cPhase, cFuzzN>>
momVars == <<mSig, mRet, mCut, mParts, mOut, mRef, mPhase>>
studyVars == <<sDays, sBoundary, sNext, sJobs, sW, sResults, sAcc, sExact, sPhase>>
ingestVars == <<iDays, iIdx, iData, iJobs, iMu, iW, iStat, iObs>>
loadVars == <<lRow, lSize, lRes>>
runVars == <<eDays, eNext, eBufs, eData, eIdx, eLog>>
poolVars == <<pTasks, pFree, pMade, pGone, pW, pPaths>>
viewVars == <<vHdr, vLen, vRes>>
finalVars == <<fSig, fRet, fICs, fStats>>
pipeVars == <<dKind, dOut, dNext, dJobs, dW, dRes, dStop, dTimer, dDone, dHist, dPhase>>
colsVars == <<kCaller, kCols, kIn, kPc, kN>>
aggVars == <<aKind, aOut, aNext, aT, aMu, aGlob, aRes, aReport>>
calcVars == <<uIn, uMid, uOut, uPc>>
vars == <<codecVars, momVars, studyVars, ingestVars, loadVars, runVars, poolVars, viewVars, finalVars, pipeVars, colsVars, aggVars, calcVars>>

\* what the actions of one part leave alone
notCodec == <<momVars, studyVars, ingestVars, loadVars, runVars, poolVars, viewVars, finalVars, pipeVars, colsVars, aggVars, calcVars>>
notMom == <<codecVars, studyVars, ingestVars, loadVars, runVars, poolVars, viewVars, finalVars, pipeVars, colsVars, aggVars, calcVars>>
notStudy == <<codecVars, momVars, ingestVars, loadVars, runVars, poolVars, viewVars, finalVars, pipeVars, colsVars, aggVars, calcVars>>
notIngest == <<codecVars, momVars, studyVars, loadVars, runVars, poolVars, viewVars, finalVars, pipeVars, colsVars, aggVars, calcVars>>
notLoad == <<codecVars, momVars, studyVars, ingestVars, runVars, poolVars, viewVars, finalVars, pipeVars, colsVars, aggVars, calcVars>>
notRun == <<codecVars, momVars, studyVars, ingestVars, loadVars, poolVars, viewVars, finalVars, pipeVars, colsVars, aggVars, calcVars>>
notPool == <<codecVars, momVars, studyVars, ingestVars, loadVars, runVars, viewVars, finalVars, pipeVars, colsVars, aggVars, calcVars>>
notView == <<codecVars, momVars, studyVars, ingestVars, loadVars, runVars, poolVars, finalVars, pipeVars, colsVars, aggVars, calcVars>>
notFinal == <<codecVars, momVars, studyVars, ingestVars, loadVars, runVars, poolVars, viewVars, pipeVars, colsVars, aggVars, calcVars>>
notPipe == <<codecVars, momVars, studyVars, ingestVars, loadVars, runVars, poolVars, viewVars, finalVars, colsVars, aggVars, calcVars>>
notCols == <<codecVars, momVars, studyVars, ingestVars, loadVars, runVars, poolVars, viewVars, finalVars, pipeVars, aggVars, calcVars>>
notAgg == <<codecVars, momVars, studyVars, ingestVars, loadVars, runVars, poolVars, viewVars, finalVars, pipeVars, colsVars, calcVars>>
notCalc == <<codecVars, momVars, studyVars, ingestVars, loadVars, runVars, poolVars, viewVars, finalVars, pipeVars, colsVars, aggVars>>

\* a part that takes no step in a specification stays in its idle state
CodecIdle ==
    /\ cDay = <<>>
    /\ cBlob = <<>>
    /\ cDec = <<>>
    /\ cPhase = "idle"
    /\ cFuzzN = 0

MomIdle ==
    /\ mSig = <<>>
    /\ mRet = <<>>
    /\ mCut = <<0, 0>>
    /\ mParts = <<>>
    /\ mOut = <<>>
    /\ mRef = <<>>
    /\ mPhase = "idle"

StudyIdle ==
    /\ sDays = <<>>
    /\ sBoundary = 0
    /\ sNext = 0
    /\ sJobs = <<>>
    /\ sW = <<>>
    /\ sResults = <<>>
    /\ sAcc = <<>>
    /\ sExact = <<>>
    /\ sPhase = "idle"

IngestIdle ==
    /\ iDays = <<>>
    /\ iIdx = <<>>
    /\ iData = <<>>
    /\ iJobs = <<>>
    /\ iMu = 0
    /\ iW = <<>>
    /\ iStat = <<>>
    /\ iObs = <<>>

LoadIdle ==
    /\ lRow = <<>>
    /\ lSize = 0
    /\ lRes = <<>>

RunIdle ==
    /\ eDays = <<>>
    /\ eNext = 0
    /\ eBufs = <<>>
    /\ eData = <<>>
    /\ eIdx = <<>>
    /\ eLog = <<>>

PoolIdle ==
    /\ pTasks = <<>>
    /\ pFree = {}
    /\ pMade = 0
    /\ pGone = {}
    /\ pW = <<>>
    /\ pPaths = {}

ViewIdle ==
    /\ vHdr = <<>>
    /\ vLen = 0
    /\ vRes = <<>>

FinalIdle ==
    /\ fSig = <<>>
    /\ fRet = <<>>
    /\ fICs = <<>>
    /\ fStats = <<>>

PipeIdle ==
    /\ dKind = "none"
    /\ dOut = <<>>
    /\ dNext = 0
    /\ dJobs = <<>>
    /\ dW = <<>>
    /\ dRes = <<>>
    /\ dStop = FALSE
    /\ dTimer = "none"
    /\ dDone = FALSE
    /\ dHist = <<>>
    /\ dPhase = "idle"

ColsIdle ==
    /\ kCaller = "none"
    /\ kCols = <<>>
    /\ kIn = <<>>
    /\ kPc = "off"
    /\ kN = 0

AggIdle ==
    /\ aKind = "none"
    /\ aOut = <<>>
    /\ aNext = 0
    /\ aT = <<>>
    /\ aMu = <<>>
    /\ aGlob = <<>>
    /\ aRes = <<>>
    /\ aReport = <<>>

CalcIdle ==
    /\ uIn = <<>>
    /\ uMid = <<>>
    /\ uOut = <<>>
    /\ uPc = "idle"

-----------------------------------------------------------------------------
(* Bounds of the model *)

MaxRows == 3        \* rows of a day handed to the codec
MaxPatches == 2     \* fields overwritten in one damaged blob
MaxLen == 3         \* rows of a (signal, return) series
MaxDays == 3        \* day tasks of one study run
MaxMonthDays == 3   \* days of the month one ingestion run covers
MaxBlobLen == 2     \* bytes of a day's blob
MaxRunDays == 3     \* days one worker encodes in a row
MaxPoolTasks == 3   \* tasks of a run that takes its DayColumns from the pool
MaxICs == 2         \* daily ICs handed to FinalizeMetrics
MaxTasks == 3       \* tasks of one run of a worker pipeline
MaxTicks == 1       \* ticks of the progress timer
MaxColTasks == 3    \* tasks one pooled DayColumns serves
MaxAggTasks == 3    \* tasks whose results are merged into the global state
MaxQLen == 5        \* rows of a day given to ComputeQuantilesStrided
MaxBuckets == 3     \* numBuckets of a call
MaxStride == 2      \* stride of a call
MaxRetLen == 3      \* rows of a day given to computeReturns
MaxTime == 3        \* largest timestamp of such a day
MaxHorizon == 2     \* largest horizon
MaxFeatRows == 3    \* rows of a day whose features are built
MaxAtoms == 2       \* active atoms (features per row)
MaxNameLen == 2     \* bytes of an atom's name
MantBits == 2       \* significand bits of the model's floating point

-----------------------------------------------------------------------------
(* Program constants.  GNCChunkSize is 65536 = 2^16 in the source and the  *)
(* chunk header stores the row count in a uint16; the model keeps that     *)
(* relation at a smaller scale: chunks of GNCChunkSize rows, and a count   *)
(* field that wraps at CountWrap = GNCChunkSize.                           *)

GNCChunkSize == 2
CountWrap == GNCChunkSize
GNCHeaderSize == 32
ChunkHeadSize == 18
PxScale == 100000000
QtScale == 100000000
GNCMagic == <<71, 78, 67, 50>>          \* "GNC2"

(* encodeChunk refuses a time delta outside int32 and a dictionary that    *)
(* already holds 65535 entries; both limits are scaled the same way.       *)
MaxTDelta == 3
MinTDelta == -4
QtyDictLimit == 2

-----------------------------------------------------------------------------
(* Bytes.  A buffer is a sequence of 0..255; buffer index i (0-based, as   *)
(* in the source) is element i+1 of the sequence.                          *)

RECURSIVE LE(_, _)
\* binary.LittleEndian.PutUintN / unsafeBytes: k bytes, two's complement
LE(v, k) == IF k = 0 THEN <<>> ELSE <<v % 256>> \o LE(v \div 256, k - 1)

At(buf, i) == IF i >= 0 /\ i < Len(buf) THEN buf[i + 1] ELSE 0

Bytes(buf, pos, k) == [j \in 1..k |-> At(buf, pos + j - 1)]

\* Values of 2^24 and more are reported as Huge: every length the model
\* compares them with is far below it.
Huge == 16777216

RECURSIVE USat(_, _, _)
\* binary.LittleEndian.UintN(buf[pos:]) of k bytes
USat(buf, pos, k) ==
    IF k = 0 THEN 0
    ELSE LET hi == USat(buf, pos + 1, k - 1)
         IN  IF hi >= 65536 THEN Huge ELSE At(buf, pos) + 256 * hi

RECURSIVE AddBytes(_, _, _)
\* a + b on little-endian byte strings of equal width, wrapping (int64 +=)
AddBytes(a, b, carry) ==
    IF a = <<>> THEN <<>>
    ELSE LET s == Head(a) + Head(b) + carry
         IN  <<s % 256>> \o AddBytes(Tail(a), Tail(b), s \div 256)

\* int64(int32 value): sign extension of 4 bytes to 8
SExt32(b) == b \o (IF b[4] >= 128 THEN <<255, 255, 255, 255>> ELSE <<0, 0, 0, 0>>)

\* float64(fixed) / scale, kept as the quotient it denotes
FloatOfFixed(fixed8, scale) == [fixed |-> fixed8, scale |-> scale]

Zero8 == <<0, 0, 0, 0, 0, 0, 0, 0>>

-----------------------------------------------------------------------------
(* encodeGNC / encodeChunk (ingestion side).  A day is the IngestBuffers   *)
(* columns: Ts, Ps (price * PxScale), Qs (quantity * QtScale), Ms, Buys.   *)

SubSeq0(s, start, end) == SubSeq(s, start + 1, end)     \* s[start:end]

\* dict lookup / insert of encodeChunk; id = uint16(len(*log))
DictPut(log, q) ==
    IF \E k \in 1..Len(log) : log[k] = q
    THEN [err |-> FALSE, id |-> (CHOOSE k \in 1..Len(log) : log[k] = q) - 1, log |-> log]
    ELSE IF Len(log) >= QtyDictLimit
         THEN [err |-> TRUE, id |-> 0, log |-> log]
         ELSE [err |-> FALSE, id |-> Len(log), log |-> Append(log, q)]

RECURSIVE EncRows(_, _, _, _, _)
\* the row loop of encodeChunk over the chunk's slices ts, ps, qs, from row i
EncRows(ts, ps, qs, i, st) ==
    IF st.err # "none" \/ i >= Len(ts) THEN st
    ELSE LET dt == IF i = 0 THEN 0 ELSE ts[i + 1] - ts[i]
             dp == IF i = 0 THEN 0 ELSE ps[i + 1] - ps[i]
             d  == DictPut(st.log, qs[i + 1])
         IN  IF i > 0 /\ (dt > MaxTDelta \/ dt < MinTDelta)
             THEN [st EXCEPT !.err = "time delta overflow"]
             ELSE IF d.err
             THEN [st EXCEPT !.err = "qty dict overflow"]
             ELSE EncRows(ts, ps, qs, i + 1,
                          [err |-> "none", log |-> d.log,
                           td |-> Append(st.td, dt), pd |-> Append(st.pd, dp),
                           qi |-> Append(st.qi, d.id)])

RECURSIVE Pow2(_)
Pow2(n) == IF n = 0 THEN 1 ELSE 2 * Pow2(n - 1)

RECURSIVE BitSum(_, _, _)
\* the bits of byte k of sideBits: bit (i % 8) of byte i/8 is set for a buy
BitSum(buys, k, j) ==
    IF j > 7 THEN 0
    ELSE (IF 8 * k + j < Len(buys) /\ buys[8 * k + j + 1] THEN Pow2(j) ELSE 0)
         + BitSum(buys, k, j + 1)

SideBits(buys) == [k \in 1..((Len(buys) + 7) \div 8) |-> BitSum(buys, k - 1, 0)]

RECURSIVE Flat(_, _)
\* unsafeBytes(s): the elements of s, w bytes each
Flat(s, w) == IF s = <<>> THEN <<>> ELSE LE(Head(s), w) \o Flat(Tail(s), w)

\* uint16(count) of the chunk header
ChunkCountField(count) == count % CountWrap

encodeChunk(bufs, start, end, log) ==
    LET count == end - start
        ts == SubSeq0(bufs.Ts, start, end)
        ps == SubSeq0(bufs.Ps, start, end)
        qs == SubSeq0(bufs.Qs, start, end)
        ms == SubSeq0(bufs.Ms, start, end)
        buys == SubSeq0(bufs.Buys, start, end)
        st == EncRows(ts, ps, qs, 0,
                      [err |-> "none", log |-> log, td |-> <<>>, pd |-> <<>>, qi |-> <<>>])
    IN  IF st.err # "none"
        THEN [err |-> st.err, log |-> st.log, bytes |-> <<>>]
        ELSE [err |-> "none", log |-> st.log,
              bytes |-> LE(ChunkCountField(count), 2) \o LE(ts[1], 8) \o LE(ps[1], 8)
                        \o Flat(st.td, 4) \o Flat(st.pd, 8) \o Flat(st.qi, 2)
                        \o Flat(ms, 2) \o SideBits(buys)]

RECURSIVE EncChunks(_, _, _, _)
\* the chunk loop of encodeGNC: i is the first row of the next chunk
EncChunks(bufs, count, i, st) ==
    IF st.err # "none" \/ i >= count THEN st
    ELSE LET end == IF i + GNCChunkSize > count THEN count ELSE i + GNCChunkSize
             c   == encodeChunk(bufs, i, end, st.log)
         IN  EncChunks(bufs, count, i + GNCChunkSize,
                       [err |-> c.err, log |-> c.log,
                        body |-> st.body \o c.bytes,
                        offs |-> Append(st.offs, GNCHeaderSize + Len(st.body))])

encodeGNC(bufs) ==
    LET count == Len(bufs.Ts)
    IN  IF count = 0 THEN [err |-> "none", count |-> 0, bytes |-> <<>>]
        ELSE LET st == EncChunks(bufs, count, 0,
                                 [err |-> "none", log |-> <<>>, body |-> <<>>, offs |-> <<>>])
                 footerStart == GNCHeaderSize + Len(st.body)
             IN  IF st.err # "none"
                 THEN [err |-> st.err, count |-> 0, bytes |-> <<>>]
                 ELSE [err |-> "none", count |-> count,
                       bytes |-> GNCMagic \o LE(count, 4) \o LE(bufs.Ts[1], 8)
                                 \o LE(bufs.Ps[1], 8) \o LE(footerStart, 8)
                                 \o st.body
                                 \o LE(Len(st.log), 4) \o Flat(st.log, 8)
                                 \o LE(Len(st.offs), 4) \o Flat(st.offs, 4)]

-----------------------------------------------------------------------------
(* inflateGNCToColumns (the shared decoder).  The result records what the  *)
(* call did: st = "ok" (returned ok=true), "fail" (returned ok=false) or   *)
(* "panic" (a Go bounds check failed: index out of range); oob is TRUE if  *)
(* an unsafe.Slice view reaches past the end of the buffer.                *)

EmptyCols == [Count |-> 0, Times |-> <<>>, Prices |-> <<>>, Qtys |-> <<>>,
              Sides |-> <<>>, Matches |-> <<>>]

ResetKeepsCols(cols) == cols

\* DayColumns.Reset
ResetCols(cols) == EmptyCols

DecResult(st, oob, cols) == [st |-> st, oob |-> oob, cols |-> cols]

RECURSIVE InflateRows(_, _, _, _, _, _, _, _)
\* the hot loop over the n rows of one chunk, from row i
InflateRows(raw, off, lay, dict, i, lastT, lastP, cols) ==
    IF i >= lay.n THEN cols
    ELSE LET t   == AddBytes(lastT, SExt32(Bytes(raw, off + lay.pTime + 4 * i, 4)), 0)
             p   == AddBytes(lastP, Bytes(raw, off + lay.pPrice + 8 * i, 8), 0)
             qID == USat(raw, off + lay.pQty + 2 * i, 2)
             q   == IF qID < dict.count
                    THEN FloatOfFixed(Bytes(raw, dict.pos + 8 * qID, 8), QtScale)
                    ELSE FloatOfFixed(Zero8, QtScale)
             m   == IF lay.hasMatches THEN USat(raw, off + lay.pMatches + 2 * i, 2) ELSE 1
             bitByte == At(raw, off + lay.pSide + (i \div 8))
             isBuy == (bitByte \div Pow2(i % 8)) % 2 = 1
         IN  InflateRows(raw, off, lay, dict, i + 1, t, p,
                 [cols EXCEPT !.Times = Append(@, t),
                              !.Prices = Append(@, FloatOfFixed(p, PxScale)),
                              !.Qtys = Append(@, q),
                              !.Matches = Append(@, m),
                              !.Sides = Append(@, IF isBuy THEN 1 ELSE -1)])

\* one iteration of "3. Process Chunks": the chunk at offset off
InflateChunk(raw, off, dict, cols) ==
    LET L == Len(raw) IN
    IF off + ChunkHeadSize > L THEN DecResult("fail", FALSE, cols)
    ELSE
    LET clen == L - off                             \* len(chunk)
        n == USat(raw, off, 2)
        pTime == ChunkHeadSize
        pPrice == pTime + n * 4
        pQty == pPrice + n * 8
        pMatches == pQty + n * 2
        pSideNew == pMatches + n * 2
        pSideLegacy == pQty + n * 2
        hasMatches == ~(pSideNew > clen)
        pSide == IF hasMatches THEN pSideNew ELSE pSideLegacy
        lay == [n |-> n, pTime |-> pTime, pPrice |-> pPrice, pQty |-> pQty,
                pMatches |-> pMatches, pSide |-> pSide, hasMatches |-> hasMatches]
    IN  IF pSideNew > clen /\ ~(pSideLegacy <= clen) THEN DecResult("fail", FALSE, cols)
        \* &chunk[pTime], &chunk[pPrice], &chunk[pQty], &chunk[pMatches]
        ELSE IF pTime >= clen \/ pPrice >= clen \/ pQty >= clen
                \/ (hasMatches /\ pMatches >= clen)
        THEN DecResult("panic", FALSE, cols)
        ELSE IF clen - pSide < (n + 7) \div 8 THEN DecResult("fail", FALSE, cols)
        ELSE DecResult("ok",
                       pTime + 4 * n > clen \/ pPrice + 8 * n > clen \/ pQty + 2 * n > clen
                           \/ (hasMatches /\ pMatches + 2 * n > clen),
                       InflateRows(raw, off, lay, dict, 0,
                                   Bytes(raw, off + 2, 8), Bytes(raw, off + 10, 8), cols))

RECURSIVE InflateChunks(_, _, _, _, _, _)
\* for _, off := range chunkOffsets
InflateChunks(raw, offsPos, chunkCount, k, dict, res) ==
    IF res.st # "ok" \/ k >= chunkCount THEN res
    ELSE LET r == InflateChunk(raw, USat(raw, offsPos + 4 * k, 4), dict, res.cols)
         IN  InflateChunks(raw, offsPos, chunkCount, k + 1, dict,
                           DecResult(r.st, res.oob \/ r.oob, r.cols))

inflateGNCToColumns(rawBlob, cols) ==
    LET L == Len(rawBlob) IN
    IF L < GNCHeaderSize THEN DecResult("fail", FALSE, cols)
    ELSE IF Bytes(rawBlob, 0, 4) # GNCMagic THEN DecResult("fail", FALSE, cols)
    ELSE IF USat(rawBlob, 4, 4) <= 0 THEN DecResult("ok", FALSE, ResetCols(cols))
    ELSE
    LET footerOffset == USat(rawBlob, 24, 8) IN
    IF footerOffset >= L THEN DecResult("fail", FALSE, cols)
    ELSE
    LET dlen == L - footerOffset                    \* len(dictBlob)
        dictCount == USat(rawBlob, footerOffset, 4)
        ptr == 4 + dictCount * 8
        chunkCount == USat(rawBlob, footerOffset + ptr, 4)
    IN  IF dlen < 4 THEN DecResult("fail", FALSE, cols)
        ELSE IF 4 + dictCount * 8 + 4 > dlen THEN DecResult("fail", FALSE, cols)
        ELSE IF ptr + 4 + chunkCount * 4 > dlen THEN DecResult("fail", FALSE, cols)
        ELSE LET r == InflateChunks(rawBlob, footerOffset + ptr + 4, chunkCount, 0,
                                    [pos |-> footerOffset + 4, count |-> dictCount],
                                    DecResult("ok", FALSE, cols))
             IN  IF r.st = "ok"
                 THEN DecResult("ok", r.oob, [r.cols EXCEPT !.Count = Len(r.cols.Prices)])
                 ELSE r

-----------------------------------------------------------------------------
(* SpecCodec: a day is encoded, and the blob is decoded again.             *)

TsVals == {5, 6, 10}
QsVals == {1, 2, 3}

\* The rows of a day: every time and quantity above, with a buy at price 7
\* or a sell at price 9, and one match per row.
DaysOfLen(n) ==
    { [Ts |-> ts, Ps |-> [i \in 1..n |-> IF bs[i] THEN 7 ELSE 9], Qs |-> qs,
       Ms |-> [i \in 1..n |-> 1], Buys |-> bs] :
        ts \in [1..n -> TsVals], qs \in [1..n -> QsVals], bs \in [1..n -> BOOLEAN] }

DaysUpTo(m) == UNION { DaysOfLen(n) : n \in 1..m }

NoDec == DecResult("none", FALSE, EmptyCols)

CodecInit ==
    /\ cDay \in DaysUpTo(MaxRows)
    /\ cBlob = <<>>
    /\ cDec = NoDec
    /\ cPhase = "input"
    /\ cFuzzN = 0
    /\ MomIdle
    /\ StudyIdle
    /\ IngestIdle
    /\ LoadIdle
    /\ RunIdle
    /\ PoolIdle
    /\ ViewIdle
    /\ FinalIdle
    /\ PipeIdle
    /\ ColsIdle
    /\ AggIdle
    /\ CalcIdle

\* processDay -> streamZipToGNCBlob -> encodeGNC
Encode ==
    /\ cPhase = "input"
    /\ LET e == encodeGNC(cDay)
       IN  /\ cBlob' = e.bytes
           /\ cPhase' = IF e.err = "none" THEN "encoded" ELSE "encfail"
    /\ UNCHANGED <<cDay, cDec, cFuzzN, notCodec>>

\* processStudyDay: cols.Reset(); loadDayColumns -> inflateGNCToColumns(raw, cols)
Decode ==
    /\ cPhase \in {"encoded", "fuzzed"}
    /\ cDec' = inflateGNCToColumns(cBlob, ResetCols(EmptyCols))
    /\ cPhase' = "decoded"
    /\ UNCHANGED <<cDay, cBlob, cFuzzN, notCodec>>

CodecNext == Encode \/ Decode

SpecCodec == CodecInit /\ [][CodecNext]_vars

\* the decoded columns that correspond to the encoder's input
ExpectTimes(day) == [i \in 1..Len(day.Ts) |-> LE(day.Ts[i], 8)]
ExpectPrices(day) == [i \in 1..Len(day.Ps) |-> FloatOfFixed(LE(day.Ps[i], 8), PxScale)]
ExpectQtys(day) == [i \in 1..Len(day.Qs) |-> FloatOfFixed(LE(day.Qs[i], 8), QtScale)]
ExpectSides(day) == [i \in 1..Len(day.Buys) |-> IF day.Buys[i] THEN 1 ELSE -1]

RoundTripOK ==
    /\ cDec.st = "ok"
    /\ cDec.cols.Count = Len(cDay.Ts)
    /\ cDec.cols.Times = ExpectTimes(cDay)
    /\ cDec.cols.Prices = ExpectPrices(cDay)
    /\ cDec.cols.Qtys = ExpectQtys(cDay)
    /\ cDec.cols.Sides = ExpectSides(cDay)

\* C2: for every day for which Encode succeeds, of any row count (also a
\* row count of GNCChunkSize or more), Decode(Encode(day)) returns ok = true,
\* the day's row count and its time, price, quantity and side columns.
CX_C2_RoundTrip == (cPhase = "decoded") => RoundTripOK

\* sanity of the model: the round trip is exact when no chunk is full
RoundTripBelowChunkSize ==
    (cPhase = "decoded" /\ Len(cDay.Ts) % GNCChunkSize = Len(cDay.Ts)) => RoundTripOK

-----------------------------------------------------------------------------
(* SpecFuzz: blobs produced by encodeGNC are damaged (offset, length and   *)
(* count fields overwritten, the buffer cut short) and then decoded.       *)

FuzzDaysUpTo(m) ==
    { d \in UNION { { [Ts |-> [i \in 1..n |-> 5], Ps |-> [i \in 1..n |-> 7],
                       Qs |-> qs, Ms |-> [i \in 1..n |-> 1],
                       Buys |-> [i \in 1..n |-> TRUE]] :
                         qs \in [1..n -> {1, 2}] } : n \in 1..m } :
        encodeGNC(d).err = "none" }

\* the structural fields of a well-formed blob: <<position, width>>
FuzzSites(blob) ==
    LET fo == USat(blob, 24, 8)
        d == USat(blob, fo, 4)
        cpos == fo + 4 + 8 * d
        c == USat(blob, cpos, 4)
    IN  {<<0, 1>>, <<4, 4>>, <<24, 8>>, <<fo, 4>>, <<cpos, 4>>}
        \cup { <<cpos + 4 + 4 * k, 4>> : k \in 0..(c - 1) }
        \cup { <<USat(blob, cpos + 4 + 4 * k, 4), 2>> : k \in 0..(c - 1) }

FuzzVals(blob) ==
    LET L == Len(blob)
    IN  {0, 1, 2, 255, 65535, L - 19, L - 18, L - 17, L - 1, L, L + 1}

Patch(blob, pos, w, val) ==
    [i \in 1..Len(blob) |->
        IF i - 1 >= pos /\ i - 1 < pos + w THEN LE(val, w)[i - pos] ELSE blob[i]]

FuzzInit ==
    /\ cDay \in FuzzDaysUpTo(MaxRows)
    /\ cBlob = encodeGNC(cDay).bytes
    /\ cDec = NoDec
    /\ cPhase = "encoded"
    /\ cFuzzN = 0
    /\ MomIdle
    /\ StudyIdle
    /\ IngestIdle
    /\ LoadIdle
    /\ RunIdle
    /\ PoolIdle
    /\ ViewIdle
    /\ FinalIdle
    /\ PipeIdle
    /\ ColsIdle
    /\ AggIdle
    /\ CalcIdle

PatchField ==
    /\ cPhase \in {"encoded", "fuzzed"}
    /\ cFuzzN < MaxPatches
    /\ Len(cBlob) = Len(encodeGNC(cDay).bytes)
    /\ \E site \in FuzzSites(encodeGNC(cDay).bytes), val \in FuzzVals(cBlob) :
           cBlob' = Patch(cBlob, site[1], site[2], val)
    /\ cPhase' = "fuzzed"
    /\ cFuzzN' = cFuzzN + 1
    /\ UNCHANGED <<cDay, cDec, notCodec>>

\* the lengths a blob is cut to: around the header, the footer and the end
TruncLens(blob) ==
    LET fo == USat(blob, 24, 8)
        L == Len(blob)
    IN  {0, 31, 32, 49, 50, fo - 1, fo, fo + 3, fo + 4, L - 5, L - 4, L - 1}

Truncate ==
    /\ cPhase \in {"encoded", "fuzzed"}
    /\ cFuzzN < MaxPatches
    /\ Len(cBlob) = Len(encodeGNC(cDay).bytes)
    /\ \E len \in TruncLens(encodeGNC(cDay).bytes) : cBlob' = SubSeq(cBlob, 1, len)
    /\ cPhase' = "fuzzed"
    /\ cFuzzN' = cFuzzN + 1
    /\ UNCHANGED <<cDay, cDec, notCodec>>

FuzzNext == PatchField \/ Truncate \/ Decode

SpecFuzz == FuzzInit /\ [][FuzzNext]_vars

\* C1: for every buffer given to Decode, damaged or not, Decode does not
\* panic and no read reaches outside the buffer (a structural violation is
\* answered with ok = false).
CX_C1_DecodeNeverPanics ==
    (cPhase = "decoded") => (cDec.st \in {"ok", "fail"} /\ ~cDec.oob)

\* what does hold: no unchecked (unsafe.Slice) read leaves the buffer
DecodeNoUncheckedOOB == (cPhase = "decoded") => ~cDec.oob

-----------------------------------------------------------------------------
(* Floating point.  Every field of Moments is a float64 and every += is a  *)
(* rounded addition.  The model keeps the rounding at a smaller scale:     *)
(* values are integers, and a result is rounded to the nearest number with *)
(* a significand of MantBits bits (ties to even), as IEEE 754 does with 53 *)
(* bits.  With exact = TRUE the same code is evaluated in real arithmetic. *)

Abs(x) == IF x < 0 THEN -x ELSE x

RECURSIVE RndAt(_, _)
\* a >= 0 rounded to a multiple of u = 2^e, for the first u that fits
RndAt(a, u) ==
    IF a < Pow2(MantBits) * u
    THEN LET q == a \div u
             r == a % u
         IN  IF 2 * r < u THEN q * u
             ELSE IF 2 * r > u THEN (q + 1) * u
             ELSE IF q % 2 = 0 THEN q * u ELSE (q + 1) * u
    ELSE RndAt(a, 2 * u)

Rnd(x) == IF x < 0 THEN -RndAt(-x, 1) ELSE RndAt(x, 1)

R(x, exact) == IF exact THEN x ELSE Rnd(x)

FAdd(a, b, exact) == R(a + b, exact)
FSub(a, b, exact) == R(a - b, exact)
FMul(a, b, exact) == R(a * b, exact)

-----------------------------------------------------------------------------
(* Moments (metrics.go)                                                    *)

ZeroMoments ==
    [Count |-> 0, SumSig |-> 0, SumRet |-> 0, SumProd |-> 0, SumSqSig |-> 0,
     SumSqRet |-> 0, SumPnL |-> 0, SumSqPnL |-> 0, Hits |-> 0, ValidHits |-> 0,
     SumAbsDeltaSig |-> 0, SumProdLag |-> 0, SumAbsSig |-> 0, SumAbsProdLag |-> 0,
     SegCount |-> 0, SegLenTotal |-> 0, SegLenMax |-> 0]

\* Add with the line for SumSqRet left out
AddDropsSumSqRet(m, m2, exact) ==
    [Count |-> FAdd(m.Count, m2.Count, exact),
     SumSig |-> FAdd(m.SumSig, m2.SumSig, exact),
     SumRet |-> FAdd(m.SumRet, m2.SumRet, exact),
     SumProd |-> FAdd(m.SumProd, m2.SumProd, exact),
     SumSqSig |-> FAdd(m.SumSqSig, m2.SumSqSig, exact),
     SumSqRet |-> m.SumSqRet,
     SumPnL |-> FAdd(m.SumPnL, m2.SumPnL, exact),
     SumSqPnL |-> FAdd(m.SumSqPnL, m2.SumSqPnL, exact),
     Hits |-> FAdd(m.Hits, m2.Hits, exact),
     ValidHits |-> FAdd(m.ValidHits, m2.ValidHits, exact),
     SumAbsDeltaSig |-> FAdd(m.SumAbsDeltaSig, m2.SumAbsDeltaSig, exact),
     SumProdLag |-> FAdd(m.SumProdLag, m2.SumProdLag, exact),
     SumAbsSig |-> FAdd(m.SumAbsSig, m2.SumAbsSig, exact),
     SumAbsProdLag |-> FAdd(m.SumAbsProdLag, m2.SumAbsProdLag, exact),
     SegCount |-> FAdd(m.SegCount, m2.SegCount, exact),
     SegLenTotal |-> FAdd(m.SegLenTotal, m2.SegLenTotal, exact),
     SegLenMax |-> IF m2.SegLenMax > m.SegLenMax THEN m2.SegLenMax ELSE m.SegLenMax]

\* Add that overwrites SegLenMax instead of keeping the larger
AddLastRunWins(m, m2, exact) ==
    [Count |-> FAdd(m.Count, m2.Count, exact),
     SumSig |-> FAdd(m.SumSig, m2.SumSig, exact),
     SumRet |-> FAdd(m.SumRet, m2.SumRet, exact),
     SumProd |-> FAdd(m.SumProd, m2.SumProd, exact),
     SumSqSig |-> FAdd(m.SumSqSig, m2.SumSqSig, exact),
     SumSqRet |-> FAdd(m.SumSqRet, m2.SumSqRet, exact),
     SumPnL |-> FAdd(m.SumPnL, m2.SumPnL, exact),
     SumSqPnL |-> FAdd(m.SumSqPnL, m2.SumSqPnL, exact),
     Hits |-> FAdd(m.Hits, m2.Hits, exact),
     ValidHits |-> FAdd(m.ValidHits, m2.ValidHits, exact),
     SumAbsDeltaSig |-> FAdd(m.SumAbsDeltaSig, m2.SumAbsDeltaSig, exact),
     SumProdLag |-> FAdd(m.SumProdLag, m2.SumProdLag, exact),
     SumAbsSig |-> FAdd(m.SumAbsSig, m2.SumAbsSig, exact),
     SumAbsProdLag |-> FAdd(m.SumAbsProdLag, m2.SumAbsProdLag, exact),
     SegCount |-> FAdd(m.SegCount, m2.SegCount, exact),
     SegLenTotal |-> FAdd(m.SegLenTotal, m2.SegLenTotal, exact),
     SegLenMax |-> m2.SegLenMax]

\* Add with the run count of m2 left out
AddKeepsRunCount(m, m2, exact) ==
    [AddLastRunWins(m, m2, exact) EXCEPT
        !.SegCount = m.SegCount,
        !.SegLenMax = IF m2.SegLenMax > m.SegLenMax THEN m2.SegLenMax ELSE m.SegLenMax]

\* func (m *Moments) Add(m2 Moments): the value of m afterwards
Add(m, m2, exact) ==
    [Count |-> FAdd(m.Count, m2.Count, exact),
     SumSig |-> FAdd(m.SumSig, m2.SumSig, exact),
     SumRet |-> FAdd(m.SumRet, m2.SumRet, exact),
     SumProd |-> FAdd(m.SumProd, m2.SumProd, exact),
     SumSqSig |-> FAdd(m.SumSqSig, m2.SumSqSig, exact),
     SumSqRet |-> FAdd(m.SumSqRet, m2.SumSqRet, exact),
     SumPnL |-> FAdd(m.SumPnL, m2.SumPnL, exact),
     SumSqPnL |-> FAdd(m.SumSqPnL, m2.SumSqPnL, exact),
     Hits |-> FAdd(m.Hits, m2.Hits, exact),
     ValidHits |-> FAdd(m.ValidHits, m2.ValidHits, exact),
     SumAbsDeltaSig |-> FAdd(m.SumAbsDeltaSig, m2.SumAbsDeltaSig, exact),
     SumProdLag |-> FAdd(m.SumProdLag, m2.SumProdLag, exact),
     SumAbsSig |-> FAdd(m.SumAbsSig, m2.SumAbsSig, exact),
     SumAbsProdLag |-> FAdd(m.SumAbsProdLag, m2.SumAbsProdLag, exact),
     SegCount |-> FAdd(m.SegCount, m2.SegCount, exact),
     SegLenTotal |-> FAdd(m.SegLenTotal, m2.SegLenTotal, exact),
     SegLenMax |-> IF m2.SegLenMax > m.SegLenMax THEN m2.SegLenMax ELSE m.SegLenMax]

\* the "if curSegLen > 0 { segCount++; ... }" block that closes a run
CloseSeg(a, exact) ==
    IF a.curSegLen > 0
    THEN [a EXCEPT !.m.SegCount = FAdd(@, 1, exact),
                   !.m.SegLenTotal = FAdd(@, a.curSegLen, exact),
                   !.m.SegLenMax = IF a.curSegLen > @ THEN a.curSegLen ELSE @]
    ELSE a

\* one iteration of LOOP 1 and of LOOP 2 for row i (0-based) with values s, r
MomentsRow(a, i, s, r, exact) ==
    LET pnl == FMul(s, r, exact)
        a1 == [a EXCEPT !.m.SumSig = FAdd(@, s, exact),
                        !.m.SumRet = FAdd(@, r, exact),
                        !.m.SumProd = FAdd(@, FMul(s, r, exact), exact),
                        !.m.SumSqSig = FAdd(@, FMul(s, s, exact), exact),
                        !.m.SumSqRet = FAdd(@, FMul(r, r, exact), exact),
                        !.m.SumPnL = FAdd(@, pnl, exact),
                        !.m.SumSqPnL = FAdd(@, FMul(pnl, pnl, exact), exact),
                        !.m.SumAbsSig = FAdd(@, Abs(s), exact)]
        a2 == IF s # 0 /\ r # 0
              THEN [a1 EXCEPT !.m.ValidHits = FAdd(@, 1, exact),
                              !.m.Hits = IF (s > 0 /\ r > 0) \/ (s < 0 /\ r < 0)
                                       THEN FAdd(@, 1, exact) ELSE @]
              ELSE a1
        a3 == IF i > 0
              THEN [a2 EXCEPT !.m.SumAbsDeltaSig = FAdd(@, Abs(FSub(s, a.prevSig, exact)), exact),
                              !.m.SumProdLag = FAdd(@, FMul(s, a.prevSig, exact), exact),
                              !.m.SumAbsProdLag =
                                  FAdd(@, FMul(Abs(s), Abs(a.prevSig), exact), exact)]
              ELSE a2
        sign == IF s > 0 THEN 1 ELSE IF s < 0 THEN -1 ELSE 0
        a4 == IF sign # 0
              THEN IF a.prevSign = sign
                   THEN [a3 EXCEPT !.curSegLen = FAdd(@, 1, exact)]
                   ELSE [CloseSeg(a3, exact) EXCEPT !.curSegLen = 1]
              ELSE [CloseSeg(a3, exact) EXCEPT !.curSegLen = 0]
    IN  [a4 EXCEPT !.prevSig = s, !.prevSign = sign]

RECURSIVE MomentsLoop(_, _, _, _, _)
MomentsLoop(sigs, rets, i, a, exact) ==
    IF i >= Len(sigs) THEN a
    ELSE MomentsLoop(sigs, rets, i + 1,
                     MomentsRow(a, i, sigs[i + 1], rets[i + 1], exact), exact)

\* CalcMomentsVectors without the close of the run open at the end
CalcMomentsNoFinalClose(sigs, rets, exact) ==
    IF Len(sigs) = 0 THEN ZeroMoments
    ELSE [MomentsLoop(sigs, rets, 0,
                      [m |-> ZeroMoments, prevSig |-> 0, prevSign |-> 0, curSegLen |-> 0],
                      exact).m EXCEPT !.Count = R(Len(sigs), exact)]

\* func CalcMomentsVectors(sigs, rets []float64) Moments
CalcMomentsVectors(sigs, rets, exact) ==
    IF Len(sigs) = 0 THEN ZeroMoments
    ELSE LET start == [m |-> ZeroMoments, prevSig |-> 0, prevSign |-> 0, curSegLen |-> 0]
             a == CloseSeg(MomentsLoop(sigs, rets, 0, start, exact), exact)
         IN  [a.m EXCEPT !.Count = R(Len(sigs), exact)]

\* the fold of part_000 CalcMoments over rows i.. (its own, shorter Moments)
RECURSIVE CalcMomentsLoop(_, _, _, _, _)
CalcMomentsLoop(sig, ret, i, a, exact) ==
    IF i >= Len(sig) THEN a
    ELSE LET s == sig[i + 1]
             r == ret[i + 1]
             pnl == FMul(s, r, exact)
             a1 == [a EXCEPT !.m.SumSig = FAdd(@, s, exact),
                             !.m.SumRet = FAdd(@, r, exact),
                             !.m.SumSqSig = FAdd(@, FMul(s, s, exact), exact),
                             !.m.SumSqRet = FAdd(@, FMul(r, r, exact), exact),
                             !.m.SumProd = FAdd(@, FMul(s, r, exact), exact),
                             !.m.SumPnL = FAdd(@, pnl, exact),
                             !.m.SumSqPnL = FAdd(@, FMul(pnl, pnl, exact), exact)]
             a2 == IF s # 0 /\ r # 0
                   THEN [a1 EXCEPT !.m.ValidHits = FAdd(@, 1, exact),
                                   !.m.Hits = IF (s > 0 /\ r > 0) \/ (s < 0 /\ r < 0)
                                            THEN FAdd(@, 1, exact) ELSE @]
                   ELSE a1
             a3 == IF i > 0
                   THEN [a2 EXCEPT !.m.Turnover =
                                       FAdd(@, Abs(FSub(s, a.prevSig, exact)), exact)]
                   ELSE a2
         IN  CalcMomentsLoop(sig, ret, i + 1, [a3 EXCEPT !.prevSig = s], exact)

LegacyZero ==
    [Count |-> 0, SumSig |-> 0, SumRet |-> 0, SumProd |-> 0, SumSqSig |-> 0,
     SumSqRet |-> 0, SumPnL |-> 0, SumSqPnL |-> 0, Hits |-> 0, ValidHits |-> 0,
     Turnover |-> 0]

\* part_000: func CalcMoments(sig, ret []float64) Moments
CalcMoments(sig, ret, exact) ==
    IF Len(sig) < 2 THEN LegacyZero
    ELSE LET start == [m |-> [LegacyZero EXCEPT !.Count = R(Len(sig), exact)],
                       prevSig |-> sig[1]]
         IN  CalcMomentsLoop(sig, ret, 0, start, exact).m

\* part_000: func (m *Moments) Add(m2 Moments)
LegacyAdd(m, m2, exact) ==
    [Count |-> FAdd(m.Count, m2.Count, exact),
     SumSig |-> FAdd(m.SumSig, m2.SumSig, exact),
     SumRet |-> FAdd(m.SumRet, m2.SumRet, exact),
     SumProd |-> FAdd(m.SumProd, m2.SumProd, exact),
     SumSqSig |-> FAdd(m.SumSqSig, m2.SumSqSig, exact),
     SumSqRet |-> FAdd(m.SumSqRet, m2.SumSqRet, exact),
     SumPnL |-> FAdd(m.SumPnL, m2.SumPnL, exact),
     SumSqPnL |-> FAdd(m.SumSqPnL, m2.SumSqPnL, exact),
     Hits |-> FAdd(m.Hits, m2.Hits, exact),
     ValidHits |-> FAdd(m.ValidHits, m2.ValidHits, exact),
     Turnover |-> FAdd(m.Turnover, m2.Turnover, exact)]

-----------------------------------------------------------------------------
(* A day's series is cut into three consecutive pieces (any of them may be *)
(* empty); each piece and the whole series go through CalcMoments, and the *)
(* pieces are merged with Add in both groupings and both orders.  mRef     *)
(* records what the same calls give without rounding.                     *)

SigVals == {-1, 0, 2}
RetVals == {-1, 0, 1}

Piece(s, from, to) == SubSeq(s, from + 1, to)

PartsOf(sigs, rets, cut, exact) ==
    LET n == Len(sigs)
        pa(s) == Piece(s, 0, cut[1])
        pb(s) == Piece(s, cut[1], cut[2])
        pc(s) == Piece(s, cut[2], n)
    IN  [a |-> CalcMomentsVectors(pa(sigs), pa(rets), exact),
         b |-> CalcMomentsVectors(pb(sigs), pb(rets), exact),
         c |-> CalcMomentsVectors(pc(sigs), pc(rets), exact),
         w |-> CalcMomentsVectors(sigs, rets, exact),
         la |-> CalcMoments(pa(sigs), pa(rets), exact),
         lb |-> CalcMoments(pb(sigs), pb(rets), exact),
         lc |-> CalcMoments(pc(sigs), pc(rets), exact),
         lw |-> CalcMoments(sigs, rets, exact)]

MergesOf(p, exact) ==
    [ab |-> Add(p.a, p.b, exact),
     ba |-> Add(p.b, p.a, exact),
     ab_c |-> Add(Add(p.a, p.b, exact), p.c, exact),
     a_bc |-> Add(p.a, Add(p.b, p.c, exact), exact),
     a0 |-> Add(p.a, ZeroMoments, exact),
     z0a |-> Add(ZeroMoments, p.a, exact),
     lab_c |-> LegacyAdd(LegacyAdd(p.la, p.lb, exact), p.lc, exact)]

MomInit ==
    /\ \E n \in 0..MaxLen :
          /\ mSig \in [1..n -> SigVals]
          /\ mRet \in [1..n -> RetVals]
          /\ \E c2 \in 0..n : \E c1 \in 0..c2 : mCut = <<c1, c2>>
    /\ mParts = <<>>
    /\ mOut = <<>>
    /\ mRef = <<>>
    /\ mPhase = "input"
    /\ CodecIdle
    /\ StudyIdle
    /\ IngestIdle
    /\ LoadIdle
    /\ RunIdle
    /\ PoolIdle
    /\ ViewIdle
    /\ FinalIdle
    /\ PipeIdle
    /\ ColsIdle
    /\ AggIdle
    /\ CalcIdle

\* the per-piece and the whole-series CalcMoments calls
CalcParts ==
    /\ mPhase = "input"
    /\ mParts' = PartsOf(mSig, mRet, mCut, FALSE)
    /\ mRef' = [parts |-> PartsOf(mSig, mRet, mCut, TRUE)]
    /\ mPhase' = "calc"
    /\ UNCHANGED <<mSig, mRet, mCut, mOut, notMom>>

\* acc.Add(piece) over the pieces
MergeParts ==
    /\ mPhase = "calc"
    /\ mOut' = MergesOf(mParts, FALSE)
    /\ mRef' = [parts |-> mRef.parts, merges |-> MergesOf(mParts, TRUE)]
    /\ mPhase' = "merged"
    /\ UNCHANGED <<mSig, mRet, mCut, mParts, notMom>>

MomNext == CalcParts \/ MergeParts

SpecMoments == MomInit /\ [][MomNext]_vars

\* fields that count rows: small integers, exact in float64 below 2^53
CountFields == {"Count", "Hits", "ValidHits", "SegLenTotal"}
\* fields that sum one term per row
SumFields == {"SumSig", "SumRet", "SumProd", "SumSqSig", "SumSqRet",
              "SumPnL", "SumSqPnL", "SumAbsSig"}
\* fields that sum one term per pair of neighbouring rows, and the run count
PairFields == {"SumAbsDeltaSig", "SumProdLag", "SumAbsProdLag", "SegCount"}

\* no addition that went into field f was rounded, in the pieces, in the
\* whole series or in the merges
ExactIn(f) ==
    /\ \A k \in {"a", "b", "c", "w"} : mParts[k][f] = mRef.parts[k][f]
    /\ \A k \in {"ab", "ab_c", "a_bc"} : mOut[k][f] = mRef.merges[k][f]

LegacyExactIn(f) ==
    /\ \A k \in {"la", "lb", "lc", "lw"} : mParts[k][f] = mRef.parts[k][f]
    /\ mOut.lab_c[f] = mRef.merges.lab_c[f]

PieceLens == <<mCut[1], mCut[2] - mCut[1], Len(mSig) - mCut[2]>>

\* C3 as the spec states it: splitting a day's series at any points and
\* merging the CalcMoments results of the pieces gives, in every additive
\* field (counts, sums, sums of squares, hit counts, lag-1 turnover, lag-1
\* product sums, run count, total run length), the whole-series value.
CX_C3_SplitMergeEqualsWhole ==
    (mPhase = "merged") =>
        \A f \in CountFields \cup SumFields \cup PairFields :
            mOut.ab_c[f] = mParts.w[f]

\* C3, amended: the merge of the pieces equals the whole series in the row
\* counters (count, hits, valid trials, total run length) and, whenever no
\* addition rounds, in the per-row sums; the per-pair fields lose the pair
\* across each cut, a run that crosses a cut is counted once per piece
\* (merged run count >= whole, merged longest run <= whole); the older
\* CalcMoments agrees in the same way only when no piece has exactly one row.
T_C3_SplitMergeRowFields ==
    (mPhase = "merged") =>
        /\ \A f \in CountFields : mOut.ab_c[f] = mParts.w[f]
        /\ \A f \in SumFields : ExactIn(f) => mOut.ab_c[f] = mParts.w[f]
        /\ mOut.ab_c.SegCount >= mParts.w.SegCount
        /\ mOut.ab_c.SegLenMax <= mParts.w.SegLenMax
        /\ (\A i \in 1..3 : PieceLens[i] # 1) =>
              /\ \A f \in {"Count", "Hits", "ValidHits"} :
                    mOut.lab_c[f] = mParts.lw[f]
              /\ \A f \in SumFields \ {"SumAbsSig"} :
                    LegacyExactIn(f) => mOut.lab_c[f] = mParts.lw[f]

\* three non-empty pieces of a series with signal and hits, merged without
\* any rounding in the per-row sums
W_C3_ThreePiecesMerged ==
    /\ mPhase = "merged"
    /\ \A i \in 1..3 : PieceLens[i] >= 1
    /\ \A f \in SumFields : ExactIn(f)
    /\ mParts.w.SumSqSig > 0
    /\ mParts.w.Hits > 0
    /\ mParts.b.SumSqRet > 0

\* C4 as the spec states it: Merge is associative and commutative and the
\* zero Moments is its identity.
CX_C4_MergeLaws ==
    (mPhase = "merged") =>
        /\ mOut.ab_c = mOut.a_bc
        /\ mOut.ab = mOut.ba
        /\ mOut.a0 = mParts.a
        /\ mOut.z0a = mParts.a

\* C4, amended: Merge is commutative, the zero Moments is its identity on
\* both sides, the longest run of a merge is the larger of the two, and
\* Merge is associative in the longest run, in the counters, and in every
\* field whose additions do not round.
T_C4_MergeLawsUpToRounding ==
    (mPhase = "merged") =>
        /\ mOut.ab = mOut.ba
        /\ mOut.a0 = mParts.a
        /\ mOut.z0a = mParts.a
        /\ mOut.ab.SegLenMax \in {mParts.a.SegLenMax, mParts.b.SegLenMax}
        /\ mOut.ab.SegLenMax >= mParts.a.SegLenMax
        /\ mOut.ab.SegLenMax >= mParts.b.SegLenMax
        /\ \A f \in CountFields \cup {"SegCount", "SegLenMax"} :
              mOut.ab_c[f] = mOut.a_bc[f]
        /\ \A f \in SumFields \cup PairFields :
              ExactIn(f) => mOut.ab_c[f] = mOut.a_bc[f]

\* three non-empty Moments with different longest runs and non-zero sums,
\* merged in both groupings without rounding
W_C4_ThreeMomentsMerged ==
    /\ mPhase = "merged"
    /\ \A i \in 1..3 : PieceLens[i] >= 1
    /\ \A f \in SumFields \cup PairFields : ExactIn(f)
    /\ mParts.a.SegLenMax # mParts.b.SegLenMax
    /\ mParts.a.SumSig # 0 /\ mParts.b.SumRet # 0 /\ mParts.c.SumProd # 0

-----------------------------------------------------------------------------
(* studySymbol (study.go): a dispatch loop fills jobsChan, CPUThreads      *)
(* workers take day tasks from it, run processStudyDay and send the        *)
(* DayResult on resultsChan, and one collector merges the results.  The    *)
(* model has one feature variant, one horizon and one quantile bucket.     *)

CPUThreads == 2
ResultsCap == 1
BpsScale == 10000

ZeroBucket == [Count |-> 0, SumSig |-> 0, SumRetBps |-> 0]

\* func (ba *BucketAgg) Add(br BucketResult)
BucketAdd(ba, br, exact) ==
    IF br.Count <= 0 THEN ba
    ELSE [Count |-> ba.Count + br.Count,
          SumSig |-> FAdd(ba.SumSig, FMul(br.AvgSig, R(br.Count, exact), exact), exact),
          SumRetBps |-> FAdd(ba.SumRetBps,
                             FMul(br.AvgRetBps, R(br.Count, exact), exact), exact)]

\* the blob of a one-row day, as ingestion wrote it
GoodBlob ==
    encodeGNC([Ts |-> <<5>>, Ps |-> <<7>>, Qs |-> <<1>>, Ms |-> <<1>>,
               Buys |-> <<TRUE>>]).bytes

\* where the footer keeps the offset of the first chunk
ChunkOffsetPos(blob) ==
    LET fo == USat(blob, 24, 8)
        d == USat(blob, fo, 4)
    IN  fo + 4 + 8 * d + 4

\* damaged blobs: a wrong magic byte; a chunk offset 18 bytes before the end
BadMagicBlob == Patch(GoodBlob, 0, 1, 0)
BadOffsetBlob == Patch(GoodBlob, ChunkOffsetPos(GoodBlob), 4, Len(GoodBlob) - 18)

\* a day on disk: its blob (<<>>: no index row for the day) and, for the
\* feature variant, the signal series and the forward returns of its rows
DayInputs ==
    { [blob |-> GoodBlob, sig |-> <<v[1]>>, ret |-> <<v[2]>>] :
          v \in {<<2, 1>>, <<-1, -1>>} }
    \cup { [blob |-> b, sig |-> <<2>>, ret |-> <<1>>] :
          b \in {<<>>, BadMagicBlob, BadOffsetBlob} }

\* loadDayColumns once the index row is found and lies inside the data file
LoadOutcome(r) == [st |-> r.st, rowCount |-> IF r.st = "ok" THEN r.cols.Count ELSE 0]

loadDayBlob(blob) ==
    IF Len(blob) = 0 THEN [st |-> "fail", rowCount |-> 0]
    ELSE LoadOutcome(inflateGNCToColumns(blob, ResetCols(EmptyCols)))

\* ComputeQuantilesStrided for one bucket and stride 1 on a one-row series
DayBuckets(sig, ret, exact) ==
    <<[ID |-> 1, AvgSig |-> sig[1], AvgRetBps |-> FMul(ret[1], BpsScale, exact),
       Count |-> 1]>>

\* a DayResult; ref is not in the code: it carries the day's Metrics and
\* Quantiles as real arithmetic gives them, for sExact
EmptyResult(ymd) == [YMD |-> ymd, Metrics |-> <<>>, Quantiles |-> <<>>, ref |-> <<>>]

\* processStudyDay after loadDayColumns returned ld: st = "panic" when the
\* decode panicked, else the DayResult
StudyDayResult(ld, dayInt, in, boundary) ==
    LET doQuantiles == dayInt < boundary
        body(exact) ==
            [Metrics |-> <<CalcMomentsVectors(in.sig, in.ret, exact)>>,
             Quantiles |-> IF doQuantiles THEN DayBuckets(in.sig, in.ret, exact)
                           ELSE <<>>]
    IN  IF ld.st = "panic" THEN [st |-> "panic", res |-> EmptyResult(dayInt)]
        ELSE IF ld.st # "ok" \/ ld.rowCount = 0
        THEN [st |-> "ok", res |-> EmptyResult(dayInt)]
        ELSE [st |-> "ok",
              res |-> [YMD |-> dayInt, Metrics |-> body(FALSE).Metrics,
                       Quantiles |-> body(FALSE).Quantiles, ref |-> body(TRUE)]]

processStudyDay(dayInt, in, boundary) ==
    StudyDayResult(loadDayBlob(in.blob), dayInt, in, boundary)

\* the result as real arithmetic gives it
RefResult(res) ==
    IF Len(res.Metrics) = 0 THEN res
    ELSE [res EXCEPT !.Metrics = res.ref.Metrics, !.Quantiles = res.ref.Quantiles]

\* a skip test that also drops one-row days
SkipMomentOffByOne(m) == m.Count <= 1

\* the collector's "if m.Count <= 0 { continue }"
SkipMoment(m) == m.Count <= 0

\* the daily IC of the collector; the quotient num / sqrt(den2) stays symbolic
DailyIC(m, exact) ==
    LET num == FSub(FMul(m.Count, m.SumProd, exact), FMul(m.SumSig, m.SumRet, exact), exact)
        denX == FSub(FMul(m.Count, m.SumSqSig, exact), FMul(m.SumSig, m.SumSig, exact), exact)
        denY == FSub(FMul(m.Count, m.SumSqRet, exact), FMul(m.SumRet, m.SumRet, exact), exact)
    IN  IF denX > 0 /\ denY > 0
        THEN [num |-> num, den2 |-> FMul(denX, denY, exact)]
        ELSE [num |-> 0, den2 |-> 1]

ZeroAcc ==
    [seen |-> FALSE, isDays |-> 0, oosDays |-> 0,
     isAcc |-> ZeroMoments, oosAcc |-> ZeroMoments,
     isDailyIC |-> <<>>, oosDailyIC |-> <<>>,
     isBuckets |-> <<>>, oosBuckets |-> <<>>]

\* tBuckets[hIdx][i].Add(bucket), after the make() of an empty tBuckets[hIdx]
BucketsAdd(tBuckets, qList, exact) ==
    IF Len(qList) = 0 THEN tBuckets
    ELSE <<BucketAdd(IF Len(tBuckets) = 0 THEN ZeroBucket ELSE tBuckets[1],
                     qList[1], exact)>>

IsOOSAfterCutoff(ymd, boundary) == ymd > boundary

\* isOOS := res.YMD >= oosBoundaryYMD
IsOOS(ymd, boundary) == ymd >= boundary

\* the body of the collector loop "for res := range resultsChan"
CollectorMerge(acc, res, boundary, exact) ==
    IF Len(res.Metrics) = 0 THEN acc
    ELSE LET isOOS == IsOOS(res.YMD, boundary)
             m == res.Metrics[1]
             a1 == [acc EXCEPT !.seen = TRUE,
                               !.oosDays = IF isOOS THEN @ + 1 ELSE @,
                               !.isDays = IF isOOS THEN @ ELSE @ + 1]
         IN  IF SkipMoment(m) THEN a1
             ELSE IF isOOS
             THEN [a1 EXCEPT !.oosAcc = Add(@, m, exact),
                             !.oosDailyIC = Append(@, DailyIC(m, exact)),
                             !.oosBuckets = BucketsAdd(@, res.Quantiles, exact)]
             ELSE [a1 EXCEPT !.isAcc = Add(@, m, exact),
                             !.isDailyIC = Append(@, DailyIC(m, exact)),
                             !.isBuckets = BucketsAdd(@, res.Quantiles, exact)]

Workers == 1..CPUThreads

StudyInit ==
    /\ sDays \in [1..MaxDays -> DayInputs]
    /\ sBoundary \in {MaxDays, MaxDays + 1}
    /\ sNext = 1
    /\ sJobs = [q |-> <<>>, closed |-> FALSE]
    /\ sW = [w \in Workers |-> [pc |-> "recv", res |-> <<>>]]
    /\ sResults = [q |-> <<>>, closed |-> FALSE]
    /\ sAcc = ZeroAcc
    /\ sExact = [acc |-> ZeroAcc, order |-> <<>>]
    /\ sPhase = "run"
    /\ CodecIdle
    /\ MomIdle
    /\ IngestIdle
    /\ LoadIdle
    /\ RunIdle
    /\ PoolIdle
    /\ ViewIdle
    /\ FinalIdle
    /\ PipeIdle
    /\ ColsIdle
    /\ AggIdle
    /\ CalcIdle

\* "for i := range tasks { jobsChan <- i }": the channel holds every task
Dispatch ==
    /\ sPhase = "run"
    /\ sNext <= Len(sDays)
    /\ sJobs' = [sJobs EXCEPT !.q = Append(@, sNext)]
    /\ sNext' = sNext + 1
    /\ UNCHANGED <<sDays, sBoundary, sW, sResults, sAcc, sExact, sPhase, notStudy>>

\* close(jobsChan)
CloseJobs ==
    /\ sPhase = "run"
    /\ sNext > Len(sDays)
    /\ ~sJobs.closed
    /\ sJobs' = [sJobs EXCEPT !.closed = TRUE]
    /\ UNCHANGED <<sDays, sBoundary, sNext, sW, sResults, sAcc, sExact, sPhase, notStudy>>

\* a worker receives a task and runs processStudyDay; a panic in the decode
\* is recovered nowhere and ends the process
TakeJob(w) ==
    /\ sPhase = "run"
    /\ sW[w].pc = "recv"
    /\ Len(sJobs.q) > 0
    /\ \E r \in {processStudyDay(Head(sJobs.q), sDays[Head(sJobs.q)], sBoundary)} :
           /\ sJobs' = [sJobs EXCEPT !.q = Tail(@)]
           /\ IF r.st = "panic"
              THEN sPhase' = "crashed" /\ UNCHANGED sW
              ELSE sW' = [sW EXCEPT ![w] = [pc |-> "send", res |-> r.res]]
                   /\ UNCHANGED sPhase
    /\ UNCHANGED <<sDays, sBoundary, sNext, sResults, sAcc, sExact, notStudy>>

\* "resultsChan <- res" blocks while the channel is full
SendResult(w) ==
    /\ sPhase = "run"
    /\ sW[w].pc = "send"
    /\ Len(sResults.q) < ResultsCap
    /\ sResults' = [sResults EXCEPT !.q = Append(@, sW[w].res)]
    /\ sW' = [sW EXCEPT ![w] = [pc |-> "recv", res |-> <<>>]]
    /\ UNCHANGED <<sDays, sBoundary, sNext, sJobs, sAcc, sExact, sPhase, notStudy>>

\* the range over the closed, drained jobsChan ends; wg.Done()
WorkerExit(w) ==
    /\ sPhase = "run"
    /\ sW[w].pc = "recv"
    /\ Len(sJobs.q) = 0
    /\ sJobs.closed
    /\ sW' = [sW EXCEPT ![w].pc = "done"]
    /\ UNCHANGED <<sDays, sBoundary, sNext, sJobs, sResults, sAcc, sExact, sPhase, notStudy>>

\* wg.Wait(); close(resultsChan)
CloseResults ==
    /\ sPhase = "run"
    /\ \A w \in Workers : sW[w].pc = "done"
    /\ ~sResults.closed
    /\ sResults' = [sResults EXCEPT !.closed = TRUE]
    /\ UNCHANGED <<sDays, sBoundary, sNext, sJobs, sW, sAcc, sExact, sPhase, notStudy>>

\* one iteration of the collector loop
Collect ==
    /\ sPhase = "run"
    /\ Len(sResults.q) > 0
    /\ LET res == Head(sResults.q)
       IN  /\ sAcc' = CollectorMerge(sAcc, res, sBoundary, FALSE)
           /\ sExact' = [acc |-> CollectorMerge(sExact.acc, RefResult(res), sBoundary, TRUE),
                          order |-> IF Len(res.Metrics) = 0 THEN sExact.order
                                    ELSE Append(sExact.order, res.YMD)]
    /\ sResults' = [sResults EXCEPT !.q = Tail(@)]
    /\ UNCHANGED <<sDays, sBoundary, sNext, sJobs, sW, sPhase, notStudy>>

\* the collector loop ends on the closed, drained resultsChan
Finish ==
    /\ sPhase = "run"
    /\ Len(sResults.q) = 0
    /\ sResults.closed
    /\ sPhase' = "done"
    /\ UNCHANGED <<sDays, sBoundary, sNext, sJobs, sW, sResults, sAcc, sExact, notStudy>>

StudyNext ==
    \/ Dispatch
    \/ CloseJobs
    \/ \E w \in Workers : TakeJob(w)
    \/ \E w \in Workers : SendResult(w)
    \/ \E w \in Workers : WorkerExit(w)
    \/ CloseResults
    \/ Collect
    \/ Finish

SpecStudy == StudyInit /\ [][StudyNext]_vars

\* the days whose blob loads and decodes to at least one row
OkDays ==
    { d \in 1..Len(sDays) :
        LET ld == loadDayBlob(sDays[d].blob) IN ld.st = "ok" /\ ld.rowCount > 0 }
InSampleDays == { d \in OkDays : d < sBoundary }
OutOfSampleDays == { d \in OkDays : d >= sBoundary }

\* the sum, in real arithmetic, of field f of the days' Moments
RECURSIVE SumOver(_, _)
SumOver(S, f) ==
    IF S = {} THEN 0
    ELSE LET d == CHOOSE x \in S : TRUE
         IN  CalcMomentsVectors(sDays[d].sig, sDays[d].ret, TRUE)[f] + SumOver(S \ {d}, f)

\* the longest same-sign run of any one of the days
LongestRun(S) ==
    LET runs == { CalcMomentsVectors(sDays[d].sig, sDays[d].ret, TRUE).SegLenMax : d \in S }
    IN  IF S = {} THEN 0 ELSE CHOOSE r \in runs : \A q \in runs : q <= r

\* the aggregates of the run in which one worker takes the tasks in order
RECURSIVE InOrderAcc(_, _)
InOrderAcc(d, acc) ==
    IF d > Len(sDays) THEN acc
    ELSE InOrderAcc(d + 1,
             CollectorMerge(acc, processStudyDay(d, sDays[d], sBoundary).res,
                            sBoundary, FALSE))

Aggregates(acc) ==
    <<acc.isAcc, acc.oosAcc, acc.isBuckets, acc.oosBuckets, acc.isDays, acc.oosDays>>

\* C5 as the spec states it: the final in-sample and out-of-sample
\* aggregates (Moments, bucket aggregates, day counts) are the same for
\* every interleaving and every completion order, hence equal to those of
\* the run that merges the days in task order.
CX_C5_AggregatesOrderFree ==
    (sPhase = "done") => Aggregates(sAcc) = Aggregates(InOrderAcc(1, ZeroAcc))

BucketCount(b) == IF Len(b) = 0 THEN 0 ELSE b[1].Count

\* C5, amended: in every interleaving that completes, every loadable day is
\* merged exactly once into the aggregate of its side of the boundary: the
\* day counts, the counters of the Moments (count, hits, valid trials, run
\* count, total and longest run) and the bucket counts are the same, and the
\* floating-point sums are sums of the same terms in completion order, equal
\* in real arithmetic and so equal up to summation rounding.
T_C5_AggregatesUpToRounding ==
    (sPhase = "done") =>
        /\ sAcc.isDays = Cardinality(InSampleDays)
        /\ sAcc.oosDays = Cardinality(OutOfSampleDays)
        /\ \A f \in CountFields \cup {"SegCount"} :
              /\ sAcc.isAcc[f] = SumOver(InSampleDays, f)
              /\ sAcc.oosAcc[f] = SumOver(OutOfSampleDays, f)
        /\ sAcc.isAcc.SegLenMax = LongestRun(InSampleDays)
        /\ sAcc.oosAcc.SegLenMax = LongestRun(OutOfSampleDays)
        /\ BucketCount(sAcc.isBuckets) = Cardinality(InSampleDays)
        /\ BucketCount(sAcc.oosBuckets) = 0
        /\ Len(sAcc.isDailyIC) = Cardinality(InSampleDays)
        /\ Len(sAcc.oosDailyIC) = Cardinality(OutOfSampleDays)
        /\ \A f \in SumFields \cup PairFields :
              /\ sExact.acc.isAcc[f] = SumOver(InSampleDays, f)
              /\ sExact.acc.oosAcc[f] = SumOver(OutOfSampleDays, f)
              /\ (sAcc.isAcc[f] = sExact.acc.isAcc[f]
                    /\ InOrderAcc(1, ZeroAcc).isAcc[f] = SumOver(InSampleDays, f))
                 => sAcc.isAcc[f] = InOrderAcc(1, ZeroAcc).isAcc[f]

\* a run that merged three loadable days out of task order, on both sides of
\* the boundary
W_C5_MergedOutOfOrder ==
    /\ sPhase = "done"
    /\ Len(sExact.order) = 3
    /\ sExact.order[1] > sExact.order[2]
    /\ sAcc.isDays = 2
    /\ sAcc.oosDays = 1

\* C6 as the spec states it: a day whose blob is missing, unreadable or
\* fails decode validation changes no aggregate, and the run is not aborted:
\* every other day is still processed and merged.
CX_C6_FailingDayContributesNothing ==
    /\ sPhase # "crashed"
    /\ (sPhase = "done") =>
          /\ { sExact.order[i] : i \in 1..Len(sExact.order) } = OkDays
          /\ sAcc.isDays + sAcc.oosDays = Cardinality(OkDays)

\* days that are missing or fail the decode's checks are skipped and the
\* others merged (the part of C6 that holds)
FailingDaysSkippedUnlessPanic ==
    (sPhase = "done") =>
        /\ { sExact.order[i] : i \in 1..Len(sExact.order) } = OkDays
        /\ sAcc.isDays + sAcc.oosDays = Cardinality(OkDays)

\* ---------------------------------------------------------------------------
\* Ingestion: runData's workers store the days of one month in the month's
\* directory (data.quantdev, index.quantdev) under the directory's mutex
\* ---------------------------------------------------------------------------

IdxHeaderSize == 16
IdxRowSize == 26

MonthDays == 1..MaxMonthDays
IngestWorkers == 1..CPUThreads

\* the lengths a day's blob can have: 0 when there is nothing to store
BlobLens == {0, 1, MaxBlobLen}

\* an index file that does not exist, and a data file that does not exist
NoIndex == [exists |-> FALSE, hdr |-> FALSE, count |-> 0, rows |-> <<>>]
NoData == [exists |-> FALSE, bytes |-> <<>>]

\* the bytes of the index file
IndexSize(idx) ==
    (IF idx.hdr THEN IdxHeaderSize ELSE 0) + IdxRowSize * Len(idx.rows)

\* the loop of checkIndex over the rows the header counts
RECURSIVE ScanRows(_, _, _)
ScanRows(idx, day, i) ==
    IF i > idx.count THEN FALSE
    ELSE IF i > Len(idx.rows) THEN FALSE
    ELSE IF idx.rows[i].day = day THEN TRUE
    ELSE ScanRows(idx, day, i + 1)

checkIndex(idx, day) ==
    IF ~idx.hdr THEN FALSE ELSE ScanRows(idx, day, 1)

isIndexedNever(idx, day) == FALSE

isIndexed(idx, day) ==
    IF ~idx.exists THEN FALSE ELSE checkIndex(idx, day)

IndexRowEndOffset(day, offset, length) ==
    [day |-> day, off |-> offset + length, len |-> length]

\* the 26-byte row updateIndex writes (the checksum is not modelled)
IndexRow(day, offset, length) ==
    [day |-> day, off |-> offset, len |-> length]

\* the blob of a day, every byte tagged with the day
BlobOf(day, length) == [i \in 1..length |-> day]

\* the files earlier runs left: the days of pre, stored in day order
RECURSIVE PriorRun(_, _, _, _)
PriorRun(d, pre, lens, files) ==
    IF d > MaxMonthDays THEN files
    ELSE IF d \notin pre THEN PriorRun(d + 1, pre, lens, files)
    ELSE PriorRun(d + 1, pre, lens,
            [idx |-> [exists |-> TRUE, hdr |-> TRUE,
                      count |-> files.idx.count + 1,
                      rows |-> Append(files.idx.rows,
                                  IndexRow(d, Len(files.data.bytes), lens[d]))],
             data |-> [exists |-> TRUE,
                       bytes |-> files.data.bytes \o BlobOf(d, lens[d])]])

IdleWorker == [pc |-> "idle", day |-> 0, off |-> 0, cnt |-> 0, put |-> 0]

IngestInit ==
    /\ iDays \in [MonthDays -> BlobLens]
    /\ \E pre \in SUBSET { d \in MonthDays : iDays[d] > 0 } :
        \E files \in { PriorRun(1, pre, iDays, [idx |-> NoIndex, data |-> NoData]) } :
            /\ iIdx = files.idx
            /\ iData = files.data
    /\ iJobs = [q |-> <<>>, next |-> 1, closed |-> FALSE]
    /\ iMu = 0
    /\ iW = [w \in IngestWorkers |-> IdleWorker]
    /\ iStat = [d \in MonthDays |-> [r |-> "", w |-> 0]]
    /\ iObs = [seen |-> FALSE, exists |-> FALSE, size |-> 0, count |-> 0]
    /\ CodecIdle
    /\ MomIdle
    /\ StudyIdle
    /\ LoadIdle
    /\ RunIdle
    /\ PoolIdle
    /\ ViewIdle
    /\ FinalIdle
    /\ PipeIdle
    /\ ColsIdle
    /\ AggIdle
    /\ CalcIdle

\* runData: jobs <- d for each day, then close(jobs)
IngestDispatch ==
    /\ ~iJobs.closed
    /\ iJobs.next <= MaxMonthDays
    /\ iJobs' = [iJobs EXCEPT !.q = Append(@, iJobs.next), !.next = @ + 1]
    /\ UNCHANGED <<iDays, iIdx, iData, iMu, iW, iStat, iObs, notIngest>>

IngestCloseJobs ==
    /\ ~iJobs.closed
    /\ iJobs.next > MaxMonthDays
    /\ iJobs' = [iJobs EXCEPT !.closed = TRUE]
    /\ UNCHANGED <<iDays, iIdx, iData, iMu, iW, iStat, iObs, notIngest>>

\* for d := range jobs
IngestTakeJob(w) ==
    /\ iW[w].pc = "idle"
    /\ iJobs.q # <<>>
    /\ iW' = [iW EXCEPT ![w] = [IdleWorker EXCEPT !.pc = "check", !.day = Head(iJobs.q)]]
    /\ iJobs' = [iJobs EXCEPT !.q = Tail(@)]
    /\ UNCHANGED <<iDays, iIdx, iData, iMu, iStat, iObs, notIngest>>

IngestWorkerExit(w) ==
    /\ iW[w].pc = "idle"
    /\ iJobs.q = <<>>
    /\ iJobs.closed
    /\ iW' = [iW EXCEPT ![w].pc = "exit"]
    /\ UNCHANGED <<iDays, iIdx, iData, iJobs, iMu, iStat, iObs, notIngest>>

\* processDay returns r: results <- r, and the worker takes the next job
Return(w, r) ==
    /\ iStat' = [iStat EXCEPT ![iW[w].day] = [r |-> r, w |-> w]]
    /\ iW' = [iW EXCEPT ![w].pc = "idle"]

\* mu.Lock(); indexed := isIndexed(idxPath, day); mu.Unlock()
FirstCheck(w) ==
    /\ iW[w].pc = "check"
    /\ iMu = 0
    /\ IF isIndexed(iIdx, iW[w].day)
         THEN Return(w, "skip")
         ELSE /\ iW' = [iW EXCEPT ![w].pc = "download"]
              /\ UNCHANGED iStat
    /\ UNCHANGED <<iDays, iIdx, iData, iJobs, iMu, iObs, notIngest>>

\* download and streamZipToGNCBlob: nothing to store, or a blob
Download(w) ==
    /\ iW[w].pc = "download"
    /\ IF iDays[iW[w].day] = 0
         THEN Return(w, "missing")
         ELSE /\ iW' = [iW EXCEPT ![w].pc = "lock"]
              /\ UNCHANGED iStat
    /\ UNCHANGED <<iDays, iIdx, iData, iJobs, iMu, iObs, notIngest>>

\* mu.Lock(); defer mu.Unlock(); if isIndexed(idxPath, day) return "skip_race"
LockAndRecheck(w) ==
    /\ iW[w].pc = "lock"
    /\ iMu = 0
    /\ IF isIndexed(iIdx, iW[w].day)
         THEN /\ Return(w, "skip_race")
              /\ UNCHANGED iMu
         ELSE /\ iMu' = w
              /\ iW' = [iW EXCEPT ![w].pc = "data"]
              /\ UNCHANGED iStat
    /\ UNCHANGED <<iDays, iIdx, iData, iJobs, iObs, notIngest>>

\* os.OpenFile(dataPath, O_CREATE|O_APPEND|O_WRONLY); offset := stat.Size()
OpenData(w) ==
    /\ iW[w].pc = "data"
    /\ iData' = [iData EXCEPT !.exists = TRUE]
    /\ iW' = [iW EXCEPT ![w].pc = "write", ![w].off = Len(iData.bytes), ![w].put = 0]
    /\ UNCHANGED <<iDays, iIdx, iJobs, iMu, iStat, iObs, notIngest>>

\* fData.Write(gncBlob): the bytes reach the file one after the other
WriteBlob(w) ==
    /\ iW[w].pc = "write"
    /\ iData' = [iData EXCEPT !.bytes = Append(@, iW[w].day)]
    /\ iW' = [iW EXCEPT ![w].put = @ + 1,
                        ![w].pc = IF iW[w].put + 1 = iDays[iW[w].day]
                                    THEN "index" ELSE "write"]
    /\ UNCHANGED <<iDays, iIdx, iJobs, iMu, iStat, iObs, notIngest>>

\* updateIndex: os.OpenFile(idxPath, O_CREATE|O_RDWR); stat.Size() == 0 ?
OpenIndex(w) ==
    /\ iW[w].pc = "index"
    /\ iIdx' = [iIdx EXCEPT !.exists = TRUE]
    /\ iW' = [iW EXCEPT ![w].pc = IF IndexSize(iIdx) = 0 THEN "header" ELSE "row"]
    /\ UNCHANGED <<iDays, iData, iJobs, iMu, iStat, iObs, notIngest>>

\* updateIndex: f.Write(hdr[:]), magic and version, count 0
WriteHeader(w) ==
    /\ iW[w].pc = "header"
    /\ iIdx' = [iIdx EXCEPT !.hdr = TRUE, !.count = 0]
    /\ iW' = [iW EXCEPT ![w].pc = "row"]
    /\ UNCHANGED <<iDays, iData, iJobs, iMu, iStat, iObs, notIngest>>

\* updateIndex: read count at 8, seek to the end, f.Write(row[:])
WriteRow(w) ==
    /\ iW[w].pc = "row"
    /\ iIdx' = [iIdx EXCEPT !.rows =
                  Append(@, IndexRow(iW[w].day, iW[w].off, iDays[iW[w].day]))]
    /\ iW' = [iW EXCEPT ![w].pc = "count", ![w].cnt = iIdx.count]
    /\ UNCHANGED <<iDays, iData, iJobs, iMu, iStat, iObs, notIngest>>

\* updateIndex: binary.Write(f, count+1) at 8; return "ok" (deferred Unlock)
WriteCount(w) ==
    /\ iW[w].pc = "count"
    /\ iIdx' = [iIdx EXCEPT !.count = iW[w].cnt + 1]
    /\ Return(w, "ok")
    /\ iMu' = 0
    /\ UNCHANGED <<iDays, iData, iJobs, iObs, notIngest>>

\* another process (probe, study, build) opens the index at any one moment
\* of the run: whether it is there, its size, and the count in its header
Observe ==
    /\ ~iObs.seen
    /\ iObs' = [seen |-> TRUE, exists |-> iIdx.exists,
                size |-> IndexSize(iIdx), count |-> iIdx.count]
    /\ UNCHANGED <<iDays, iIdx, iData, iJobs, iMu, iW, iStat, notIngest>>

IngestNext ==
    \/ IngestDispatch
    \/ IngestCloseJobs
    \/ \E w \in IngestWorkers : IngestTakeJob(w)
    \/ \E w \in IngestWorkers : IngestWorkerExit(w)
    \/ \E w \in IngestWorkers : FirstCheck(w)
    \/ \E w \in IngestWorkers : Download(w)
    \/ \E w \in IngestWorkers : LockAndRecheck(w)
    \/ \E w \in IngestWorkers : OpenData(w)
    \/ \E w \in IngestWorkers : WriteBlob(w)
    \/ \E w \in IngestWorkers : OpenIndex(w)
    \/ \E w \in IngestWorkers : WriteHeader(w)
    \/ \E w \in IngestWorkers : WriteRow(w)
    \/ \E w \in IngestWorkers : WriteCount(w)
    \/ Observe

SpecIngest == IngestInit /\ [][IngestNext]_vars

T_C8_EntriesWithinData ==
    \A i \in 1..Len(iIdx.rows) :
        /\ iIdx.rows[i].off >= 0
        /\ iIdx.rows[i].off + iIdx.rows[i].len <= Len(iData.bytes)
        /\ \A k \in 1..iIdx.rows[i].len :
              iData.bytes[iIdx.rows[i].off + k] = iIdx.rows[i].day

\* both workers stored a day in this run, the second behind the first, and
\* the last row ends exactly at the end of the data file
W_C8_RowAfterItsBlob ==
    /\ \E d1, d2 \in MonthDays :
          /\ iStat[d1].r = "ok" /\ iStat[d2].r = "ok"
          /\ iStat[d1].w # iStat[d2].w
    /\ Len(iIdx.rows) >= 2
    /\ iIdx.rows[Len(iIdx.rows)].off > 0
    /\ iIdx.rows[Len(iIdx.rows)].off + iIdx.rows[Len(iIdx.rows)].len
          = Len(iData.bytes)

\* an index file as a finished updateIndex leaves it: a header and the rows
\* the header counts
WholeIndex(exists, size, count) ==
    \/ ~exists
    \/ size = IdxHeaderSize + IdxRowSize * count

\* C10 as the spec states it: a reader that looks at the files while a run
\* is writing never sees a half-written file.
CX_C10_FilesWrittenWhole ==
    iObs.seen => WholeIndex(iObs.exists, iObs.size, iObs.count)

\* what a reader can rely on: once the index has its header, the rows the
\* header counts are in the file
CountedRowsWritten ==
    (iObs.seen /\ iObs.size > 0) =>
        iObs.size >= IdxHeaderSize + IdxRowSize * iObs.count

\* ---------------------------------------------------------------------------
\* The readers of an index row: probe's validateMonth, study's
\* loadDayColumns and build's loadRawGNC each take the row's offset and
\* length to the month's data file
\* ---------------------------------------------------------------------------

\* int64 scaled to 11 bits: the largest int64, and int64(u) of a uint64
Int64Max == 1023

AsInt64(u) == IF u > Int64Max THEN u - 2 * (Int64Max + 1) ELSE u

\* a + b in int64, wrapping
AddInt64(a, b) ==
    LET t == a + b
    IN  IF t > Int64Max THEN t - 2 * (Int64Max + 1)
        ELSE IF t < -(Int64Max + 1) THEN t + 2 * (Int64Max + 1)
        ELSE t

ProbeBlobCap == 256     \* 256*1024*1024, scaled
StudyBlobCap == 512     \* 512*1024*1024, scaled
AllocLimit == 800       \* the largest slice make([]byte, n) gives, scaled

\* f.Seek(offset, io.SeekStart) fails on a negative offset
SeekOk(offset) == offset >= 0

\* io.ReadFull(f, buf) at position pos of a file of the given size
ReadFullOk(pos, n, size) == pos + n <= size

Outcome(res, ops) == [done |-> TRUE, res |-> res, ops |-> ops]
Pending == [done |-> FALSE, res |-> "", ops |-> <<>>]

\* one pass of validateMonth's loop over a row
validateMonthRow(row, size, magicOk) ==
    LET offset == AsInt64(row.off)
        length == AsInt64(row.len)
    IN  IF length < GNCHeaderSize THEN Outcome("corrupt_len", <<>>)
        ELSE IF offset < 0 \/ length < 0 \/ AddInt64(offset, length) > size
            THEN Outcome("corrupt_size", <<>>)
        ELSE IF ~SeekOk(offset) THEN Outcome("corrupt", <<"seek">>)
        ELSE IF ~ReadFullOk(offset, GNCHeaderSize, size)
            THEN Outcome("read_fail", <<"seek", "read">>)
        ELSE IF ~magicOk THEN Outcome("bad_magic", <<"seek", "read">>)
        ELSE IF length > ProbeBlobCap
            THEN Outcome("huge", <<"seek", "read", "seek">>)
        ELSE IF ~ReadFullOk(offset, length, size)
            THEN Outcome("corrupt", <<"seek", "read", "seek", "read">>)
        ELSE Outcome("ok", <<"seek", "read", "seek", "read">>)

\* loadDayColumns with the row findBlobOffset returned
loadDayColumns(row, size, magicOk) ==
    LET off64 == AsInt64(row.off)
        len64 == AsInt64(row.len)
    IN  IF row.len = 0 THEN Outcome("none", <<>>)
        ELSE IF off64 < 0 \/ len64 <= 0 \/ AddInt64(off64, len64) > size
            THEN Outcome("rejected", <<>>)
        ELSE IF len64 > StudyBlobCap THEN Outcome("rejected", <<>>)
        ELSE IF ~SeekOk(off64) THEN Outcome("rejected", <<"seek">>)
        ELSE IF ~ReadFullOk(off64, len64, size)
            THEN Outcome("read_fail", <<"seek", "read">>)
        ELSE IF ~magicOk THEN Outcome("bad_magic", <<"seek", "read">>)
        ELSE Outcome("ok", <<"seek", "read">>)

\* loadRawGNC with the task discoverTasks made of the row
loadRawGNC(row, size, magicOk) ==
    LET offset == AsInt64(row.off)
        length == AsInt64(row.len)
    IN  IF ~(length > 0) THEN Outcome("notask", <<>>)
        ELSE IF ~SeekOk(offset) THEN Outcome("seek_fail", <<"seek">>)
        ELSE IF length > AllocLimit THEN Outcome("panic", <<"seek">>)
        ELSE IF ~ReadFullOk(offset, length, size)
            THEN Outcome("read_fail", <<"seek", "read">>)
        ELSE IF ~magicOk THEN Outcome("bad_magic", <<"seek", "read">>)
        ELSE Outcome("ok", <<"seek", "read">>)

RowOffsets == {0, 40, 100, 1000, 2000}
RowLengths == {0, 20, 50, 300, 600, 900, 2000}
DataSizes == {90, 700}

LoadInit ==
    /\ lRow \in [off : RowOffsets, len : RowLengths]
    /\ lSize \in DataSizes
    /\ lRes = [probe |-> Pending, study |-> Pending, build |-> Pending]
    /\ CodecIdle
    /\ MomIdle
    /\ StudyIdle
    /\ IngestIdle
    /\ RunIdle
    /\ PoolIdle
    /\ ViewIdle
    /\ FinalIdle
    /\ PipeIdle
    /\ ColsIdle
    /\ AggIdle
    /\ CalcIdle

ProbeRow ==
    /\ ~lRes.probe.done
    /\ \E magicOk \in BOOLEAN :
          lRes' = [lRes EXCEPT !.probe = validateMonthRow(lRow, lSize, magicOk)]
    /\ UNCHANGED <<lRow, lSize, notLoad>>

StudyRow ==
    /\ ~lRes.study.done
    /\ \E magicOk \in BOOLEAN :
          lRes' = [lRes EXCEPT !.study = loadDayColumns(lRow, lSize, magicOk)]
    /\ UNCHANGED <<lRow, lSize, notLoad>>

BuildRow ==
    /\ ~lRes.build.done
    /\ \E magicOk \in BOOLEAN :
          lRes' = [lRes EXCEPT !.build = loadRawGNC(lRow, lSize, magicOk)]
    /\ UNCHANGED <<lRow, lSize, notLoad>>

LoadNext ==
    \/ ProbeRow
    \/ StudyRow
    \/ BuildRow

SpecLoad == LoadInit /\ [][LoadNext]_vars

\* the row points past the end of the data file
RowExceedsData == lRow.off + lRow.len > lSize

\* C9 as the spec states it: a row whose offset + length exceeds the size of
\* the data file is rejected by every reader before it seeks or reads the
\* data file for that row.
CX_C9_RejectedBeforeAnyRead ==
    RowExceedsData =>
        /\ lRes.probe.done => lRes.probe.ops = <<>>
        /\ lRes.study.done => lRes.study.ops = <<>>
        /\ lRes.build.done => lRes.build.ops = <<>>

\* validateMonth and loadDayColumns reject such a row before any seek or
\* read when offset + length fits an int64; no reader returns its blob
RejectedFirstWhereChecked ==
    RowExceedsData =>
        /\ lRes.probe.res # "ok" /\ lRes.study.res # "ok" /\ lRes.build.res # "ok"
        /\ lRow.off + lRow.len <= Int64Max =>
              /\ lRes.probe.ops = <<>>
              /\ lRes.study.ops = <<>>

\* ---------------------------------------------------------------------------
\* The limits of the encoder (SpecCodec)
\* ---------------------------------------------------------------------------

\* the ids a uint16 dictionary id can take: 65536 = 65535 + 1 in the source
DictIdSpace == QtyDictLimit + 1

DistinctQtys(day) == Cardinality({ day.Qs[i] : i \in 1..Len(day.Qs) })

DeltaOutOfRange(day, i) ==
    \/ day.Ts[i + 1] - day.Ts[i] > MaxTDelta
    \/ day.Ts[i + 1] - day.Ts[i] < MinTDelta

\* C11 as the spec states it: Encode fails exactly when some delta between
\* two consecutive rows is outside the int32 range or the day has more
\* distinct quantities than the dictionary's id space; a day with exactly
\* that many distinct quantities and all deltas in range encodes.
CX_C11_EncodeFailsIffLimit ==
    (cPhase \in {"encoded", "encfail"}) =>
        ((cPhase = "encfail") <=>
            \/ \E i \in 1..(Len(cDay.Ts) - 1) : DeltaOutOfRange(cDay, i)
            \/ DistinctQtys(cDay) > DictIdSpace)

\* what encodeGNC does: it fails exactly when a delta inside one chunk is out
\* of range or the day has more than QtyDictLimit distinct quantities
EncodeFailsOnCodeLimits ==
    (cPhase \in {"encoded", "encfail"}) =>
        ((cPhase = "encfail") <=>
            \/ \E i \in 1..(Len(cDay.Ts) - 1) :
                  i % GNCChunkSize # 0 /\ DeltaOutOfRange(cDay, i)
            \/ DistinctQtys(cDay) > QtyDictLimit)

\* ---------------------------------------------------------------------------
\* One ingestion worker handling day after day with pooled IngestBuffers
\* ---------------------------------------------------------------------------

\* ingestBufferPool.New: empty columns, scratch arrays of one chunk
NewBuffers ==
    [Ts |-> <<>>, Ps |-> <<>>, Qs |-> <<>>, Ms |-> <<>>, Buys |-> <<>>,
     TDeltas |-> [k \in 1..GNCChunkSize |-> 0],
     PDeltas |-> [k \in 1..GNCChunkSize |-> 0],
     QIDs |-> [k \in 1..GNCChunkSize |-> 0],
     SideBits |-> [k \in 1..((GNCChunkSize + 7) \div 8) |-> 0]]

ResetKeepsRows(b) == b

\* IngestBuffers.Reset: the five columns are cut to length 0
Reset(b) ==
    [b EXCEPT !.Ts = <<>>, !.Ps = <<>>, !.Qs = <<>>, !.Ms = <<>>, !.Buys = <<>>]

\* scanCSVToBuffers: the rows of the day's file are appended to the columns
ScanInto(b, day) ==
    [b EXCEPT !.Ts = @ \o day.Ts, !.Ps = @ \o day.Ps, !.Qs = @ \o day.Qs,
              !.Ms = @ \o day.Ms, !.Buys = @ \o day.Buys]

\* a scratch array after its first Len(new) elements were assigned
Overlay(old, new) ==
    [k \in 1..Len(old) |-> IF k <= Len(new) THEN new[k] ELSE old[k]]

RECURSIVE ByteOr(_, _, _)
\* a | b on bytes, from bit j up
ByteOr(a, b, j) ==
    IF j > 7 THEN 0
    ELSE (IF (a \div Pow2(j)) % 2 = 1 \/ (b \div Pow2(j)) % 2 = 1 THEN Pow2(j) ELSE 0)
         + ByteOr(a, b, j + 1)

\* for k := range sideBits { sideBits[k] = 0 } over the chunk's n bytes
ZeroSideBits(sb, n) == [k \in 1..Len(sb) |-> IF k <= n THEN 0 ELSE sb[k]]

\* sideBits[i/8] |= 1 << (i%8) for the buys among the first done rows
OrSideBits(sb, buys, done) ==
    [k \in 1..Len(sb) |->
        ByteOr(sb[k], BitSum(SubSeq(buys, 1, done), k - 1, 0), 0)]

\* encodeChunk on the pooled buffers: the scratch arrays are assigned row
\* by row up to the row that fails, and the chunk is written from them
encodeChunkPooled(b, start, end, log) ==
    LET count == end - start
        ts == SubSeq0(b.Ts, start, end)
        ps == SubSeq0(b.Ps, start, end)
        qs == SubSeq0(b.Qs, start, end)
        ms == SubSeq0(b.Ms, start, end)
        buys == SubSeq0(b.Buys, start, end)
        st == EncRows(ts, ps, qs, 0,
                      [err |-> "none", log |-> log, td |-> <<>>, pd |-> <<>>, qi |-> <<>>])
        nb == [b EXCEPT !.TDeltas = Overlay(@, st.td),
                        !.PDeltas = Overlay(@, st.pd),
                        !.QIDs = Overlay(@, st.qi),
                        !.SideBits = OrSideBits(ZeroSideBits(@, (count + 7) \div 8),
                                                buys, Len(st.qi))]
    IN  IF st.err # "none"
        THEN [err |-> st.err, log |-> st.log, bytes |-> <<>>, bufs |-> nb]
        ELSE [err |-> "none", log |-> st.log, bufs |-> nb,
              bytes |-> LE(ChunkCountField(count), 2) \o LE(ts[1], 8) \o LE(ps[1], 8)
                        \o Flat(SubSeq(nb.TDeltas, 1, count), 4)
                        \o Flat(SubSeq(nb.PDeltas, 1, count), 8)
                        \o Flat(SubSeq(nb.QIDs, 1, count), 2)
                        \o Flat(ms, 2)
                        \o SubSeq(nb.SideBits, 1, (count + 7) \div 8)]

RECURSIVE EncChunksPooled(_, _, _, _)
\* the chunk loop of encodeGNC on the pooled buffers
EncChunksPooled(b, count, i, st) ==
    IF st.err # "none" \/ i >= count THEN [st EXCEPT !.bufs = b]
    ELSE LET end == IF i + GNCChunkSize > count THEN count ELSE i + GNCChunkSize
             c   == encodeChunkPooled(b, i, end, st.log)
         IN  EncChunksPooled(c.bufs, count, i + GNCChunkSize,
                             [err |-> c.err, log |-> c.log, bufs |-> c.bufs,
                              body |-> st.body \o c.bytes,
                              offs |-> Append(st.offs, GNCHeaderSize + Len(st.body))])

\* encodeGNC(bufs, count) on the pooled buffers: a fresh dictionary per call
encodeGNCPooled(b) ==
    LET count == Len(b.Ts)
        st == EncChunksPooled(b, count, 0,
                              [err |-> "none", log |-> <<>>, bufs |-> b,
                               body |-> <<>>, offs |-> <<>>])
        footerStart == GNCHeaderSize + Len(st.body)
    IN  IF count = 0 THEN [err |-> "none", count |-> 0, bytes |-> <<>>, bufs |-> b]
        ELSE IF st.err # "none"
        THEN [err |-> st.err, count |-> 0, bytes |-> <<>>, bufs |-> st.bufs]
        ELSE [err |-> "none", count |-> count, bufs |-> st.bufs,
              bytes |-> GNCMagic \o LE(count, 4) \o LE(b.Ts[1], 8)
                        \o LE(b.Ps[1], 8) \o LE(footerStart, 8)
                        \o st.body
                        \o LE(Len(st.log), 4) \o Flat(st.log, 8)
                        \o LE(Len(st.offs), 4) \o Flat(st.offs, 4)]

\* the days a worker is handed: rows that encode, a time delta out of
\* range in the second row, and more distinct quantities than the
\* dictionary takes
RunDay(ts, qs, buys) ==
    [Ts |-> ts, Ps |-> [i \in 1..Len(ts) |-> IF buys[i] THEN 7 ELSE 9], Qs |-> qs,
     Ms |-> [i \in 1..Len(ts) |-> 1], Buys |-> buys]

RunDayInputs ==
    { RunDay(<<5>>, <<1>>, <<TRUE>>),
      RunDay(<<5, 6>>, <<1, 2>>, <<FALSE, TRUE>>),
      RunDay(<<5, 6, 6>>, <<2, 2, 1>>, <<TRUE, TRUE, TRUE>>),
      RunDay(<<5, 5, 5>>, <<1, 1, 1>>, <<FALSE, FALSE, FALSE>>),
      RunDay(<<5, 10>>, <<1, 1>>, <<TRUE, TRUE>>),
      RunDay(<<5, 5, 5>>, <<1, 2, 3>>, <<TRUE, TRUE, TRUE>>) }

RunInit ==
    /\ eDays \in [1..MaxRunDays -> RunDayInputs]
    /\ eNext = 1
    /\ eBufs = NewBuffers
    /\ eData = <<>>
    /\ eIdx = <<>>
    /\ eLog = <<>>
    /\ CodecIdle
    /\ MomIdle
    /\ StudyIdle
    /\ IngestIdle
    /\ LoadIdle
    /\ PoolIdle
    /\ ViewIdle
    /\ FinalIdle
    /\ PipeIdle
    /\ ColsIdle
    /\ AggIdle
    /\ CalcIdle

\* ingestBufferPool.Get(): the buffers put back last, or new ones
PoolGet(reused) == IF reused THEN eBufs ELSE NewBuffers

\* processDay: the encode fails, "error_parse"; deferred Put
RunDayFails ==
    /\ eNext <= MaxRunDays
    /\ \E reused \in BOOLEAN :
        \E e \in { encodeGNCPooled(ScanInto(Reset(PoolGet(reused)), eDays[eNext])) } :
            /\ e.err # "none"
            /\ eBufs' = e.bufs
            /\ eLog' = Append(eLog, [r |-> "error_parse", reused |-> reused])
    /\ eNext' = eNext + 1
    /\ UNCHANGED <<eDays, eData, eIdx, notRun>>

\* processDay: the blob is appended to the data file and its row to the
\* index, "ok"; deferred Put
RunDayStored ==
    /\ eNext <= MaxRunDays
    /\ \E reused \in BOOLEAN :
        \E e \in { encodeGNCPooled(ScanInto(Reset(PoolGet(reused)), eDays[eNext])) } :
            /\ e.err = "none"
            /\ eBufs' = e.bufs
            /\ eData' = eData \o e.bytes
            /\ eIdx' = Append(eIdx, IndexRow(eNext, Len(eData), Len(e.bytes)))
            /\ eLog' = Append(eLog, [r |-> "ok", reused |-> reused])
    /\ eNext' = eNext + 1
    /\ UNCHANGED <<eDays, notRun>>

RunNext == RunDayFails \/ RunDayStored

SpecRun == RunInit /\ [][RunNext]_vars

RECURSIVE FilesWithout(_, _, _)
\* the files after the days before position n, each encoded from new
\* buffers, the days whose encode fails left out
FilesWithout(k, n, f) ==
    IF k >= n THEN f
    ELSE LET e == encodeGNC(eDays[k])
         IN  IF e.err # "none" THEN FilesWithout(k + 1, n, f)
             ELSE FilesWithout(k + 1, n,
                    [data |-> f.data \o e.bytes,
                     idx |-> Append(f.idx, IndexRow(k, Len(f.data), Len(e.bytes)))])

\* C12: a day whose encode fails with a time-delta or dictionary overflow
\* leaves the data file and the index as they were, and the blobs and rows
\* of the days before and after it, handled by the same worker with the
\* same pooled buffers, are those of a run without the failing day.
T_C12_FailedDayLeavesNoTrace ==
    /\ eData = FilesWithout(1, eNext, [data |-> <<>>, idx |-> <<>>]).data
    /\ eIdx = FilesWithout(1, eNext, [data |-> <<>>, idx |-> <<>>]).idx
    /\ \A k \in 1..Len(eLog) :
          (eLog[k].r = "error_parse") <=> (encodeGNC(eDays[k]).err # "none")

\* a day stored, then a day that fails, then a day of sells stored from the
\* buffers the failing day of buys left in the pool
W_C12_StoredAfterFailure ==
    /\ Len(eLog) = 3
    /\ eLog[1].r = "ok"
    /\ eLog[2].r = "error_parse" /\ eLog[2].reused
    /\ eLog[3].r = "ok" /\ eLog[3].reused
    /\ \A i \in 1..Len(eDays[3].Buys) : ~eDays[3].Buys[i]
    /\ Len(eDays[3].Ts) = 3

\* ---------------------------------------------------------------------------
\* DayColumnPool: the workers of a run take a DayColumns instance per task
\* ---------------------------------------------------------------------------

PoolWorkers == 1..CPUThreads

\* how processStudyDay leaves a task after DayColumnPool.Get
ExitPaths == {"load_fail", "decode_fail", "empty", "ok", "panic"}

PoolInit ==
    /\ pTasks \in UNION { [1..n -> ExitPaths] : n \in 0..MaxPoolTasks }
    /\ pFree = {}
    /\ pMade = 0
    /\ pGone = {}
    /\ pW = [w \in PoolWorkers |-> [pc |-> "idle", cols |-> 0, path |-> "", reused |-> FALSE]]
    /\ pPaths = {}
    /\ CodecIdle
    /\ MomIdle
    /\ StudyIdle
    /\ IngestIdle
    /\ LoadIdle
    /\ RunIdle
    /\ ViewIdle
    /\ FinalIdle
    /\ PipeIdle
    /\ ColsIdle
    /\ AggIdle
    /\ CalcIdle

PoolCrashed == \E w \in PoolWorkers : pW[w].pc = "crashed"

PutOnSuccessOnly(path) == path = "ok"

\* defer DayColumnPool.Put(cols): whether Put runs when the task is left
PutRuns(path) == TRUE

\* a worker receives a task: cols := DayColumnPool.Get(), an instance of the
\* pool or a new one; cols.Reset(); defer Put
GetPooled(w) ==
    /\ ~PoolCrashed
    /\ pW[w].pc = "idle"
    /\ pTasks # <<>>
    /\ \E c \in pFree :
          /\ pFree' = pFree \ {c}
          /\ pW' = [pW EXCEPT ![w] = [pc |-> "hold", cols |-> c,
                                      path |-> Head(pTasks), reused |-> TRUE]]
    /\ pTasks' = Tail(pTasks)
    /\ UNCHANGED <<pMade, pGone, pPaths, notPool>>

GetNew(w) ==
    /\ ~PoolCrashed
    /\ pW[w].pc = "idle"
    /\ pTasks # <<>>
    /\ pMade' = pMade + 1
    /\ pW' = [pW EXCEPT ![w] = [pc |-> "hold", cols |-> pMade + 1,
                                path |-> Head(pTasks), reused |-> FALSE]]
    /\ pTasks' = Tail(pTasks)
    /\ UNCHANGED <<pFree, pGone, pPaths, notPool>>

\* the task returns (or panics) and the deferred Put runs; a panic then
\* ends the process
LeaveTask(w) ==
    /\ ~PoolCrashed
    /\ pW[w].pc = "hold"
    /\ IF PutRuns(pW[w].path)
         THEN /\ pFree' = pFree \cup {pW[w].cols}
              /\ pPaths' = pPaths \cup {pW[w].path}
         ELSE UNCHANGED <<pFree, pPaths>>
    /\ pW' = [pW EXCEPT ![w] = [pc |-> IF pW[w].path = "panic" THEN "crashed" ELSE "idle",
                                cols |-> 0, path |-> "", reused |-> FALSE]]
    /\ UNCHANGED <<pTasks, pMade, pGone, notPool>>

\* the garbage collector empties the pool
PoolDrop ==
    /\ ~PoolCrashed
    /\ pFree # {}
    /\ pGone' = pGone \cup pFree
    /\ pFree' = {}
    /\ UNCHANGED <<pTasks, pMade, pW, pPaths, notPool>>

PoolNext ==
    \/ \E w \in PoolWorkers : GetPooled(w)
    \/ \E w \in PoolWorkers : GetNew(w)
    \/ \E w \in PoolWorkers : LeaveTask(w)
    \/ PoolDrop

SpecPool == PoolInit /\ [][PoolNext]_vars

HeldBy(w) == IF pW[w].pc = "hold" THEN {pW[w].cols} ELSE {}

\* C13: an instance taken from the pool is held by one worker until that
\* worker puts it back, it is put back on every exit path, and no two
\* workers hold the same instance at the same time.
T_C13_OneHolderAlwaysReturned ==
    /\ \A w1, w2 \in PoolWorkers : w1 # w2 => HeldBy(w1) \cap HeldBy(w2) = {}
    /\ \A w \in PoolWorkers : HeldBy(w) \cap (pFree \cup pGone) = {}
    /\ pFree \cap pGone = {}
    /\ 1..pMade = pFree \cup pGone \cup UNION { HeldBy(w) : w \in PoolWorkers }

\* both workers hold an instance, one of them an instance that came back to
\* the pool from a task that failed to load
W_C13_TwoHoldersOneReused ==
    /\ \A w \in PoolWorkers : pW[w].pc = "hold"
    /\ \E w \in PoolWorkers : pW[w].reused
    /\ "load_fail" \in pPaths

\* ---------------------------------------------------------------------------
\* The zero-copy TradeBlock view over a TBV1 blob
\* ---------------------------------------------------------------------------

TBHdrSize == 64
CacheLine == 64

\* uint64 scaled to 16 bits; a blob is shorter than Word64 / 64 bytes, as a
\* slice that fits the address space is shorter than 2^58
Word64 == 65536

U64(x) == x % Word64

\* int(h.Rows)
IntOfU64(u) == IF u >= Word64 \div 2 THEN u - Word64 ELSE u

ColumnNames == {"OffAgg", "OffPrice", "OffQty", "OffFirst", "OffLast", "OffTime"}

\* validateCol: end := uint64(off) + rows*elemSize; end > blobLen fails
validateCol(off, elemSize, rows, blobLen) ==
    U64(off + U64(rows * elemSize)) <= blobLen

BitsetUnchecked(rows, offBits, blobLen) == TRUE

\* bitWords := (rows + 63) / 64, not 0, and the words end inside the blob
BitsetFits(rows, offBits, blobLen) ==
    /\ U64(rows + 63) \div 64 # 0
    /\ U64(offBits + U64((U64(rows + 63) \div 64) * 8)) <= blobLen

parseTBHeader(hdr, hdrLen, blobLen) ==
    IF hdrLen < TBHdrSize THEN "header too short"
    ELSE IF ~hdr.magicOk THEN "magic mismatch"
    ELSE IF ~hdr.versionOk THEN "version mismatch"
    ELSE IF hdr.rows = 0 THEN "zero rows"
    ELSE IF blobLen < TBHdrSize THEN "blob too small"
    ELSE IF \E c \in ColumnNames \cup {"OffBits"} : hdr[c] < TBHdrSize
        THEN "offset < header size"
    ELSE IF \E c \in ColumnNames \cup {"OffBits"} : hdr[c] % CacheLine # 0
        THEN "offset not aligned"
    ELSE IF \E c \in ColumnNames : ~validateCol(hdr[c], 8, hdr.rows, blobLen)
        THEN "column out of range"
    ELSE IF ~BitsetFits(hdr.rows, hdr.OffBits, blobLen)
        THEN "bitset out of range"
    ELSE "ok"

NoView == [ok |-> FALSE, err |-> "", count |-> 0, bitWords |-> 0]

\* mapTradeBlock(raw): the view's columns start at the header's offsets and
\* have count elements; BuyerBits has bitWords words
mapTradeBlock(hdr, rawLen) ==
    IF parseTBHeader(hdr, rawLen, rawLen) # "ok"
    THEN [NoView EXCEPT !.err = parseTBHeader(hdr, rawLen, rawLen)]
    ELSE IF rawLen < TBHdrSize THEN [NoView EXCEPT !.err = "short blob"]
    ELSE IF IntOfU64(hdr.rows) < 0 THEN [NoView EXCEPT !.err = "negative count"]
    ELSE [ok |-> TRUE, err |-> "none", count |-> IntOfU64(hdr.rows),
          bitWords |-> U64(hdr.rows + 63) \div 64]

\* rows: small counts, counts whose byte size wraps, the largest values
RowsVals == {0, 1, 8, 64, 65, 8192, 8193, 16385, 32768, 65473, 65535}
OffVals == {64, 128, 100, 960}
BlobLens16 == {32, 64, 136, 192, 1000}

ViewInit ==
    /\ vHdr \in [magicOk : BOOLEAN, versionOk : {TRUE}, rows : RowsVals,
                 OffAgg : OffVals, OffPrice : {64, 128}, OffQty : {64},
                 OffFirst : {64}, OffLast : {128}, OffTime : OffVals,
                 OffBits : OffVals]
    /\ vLen \in BlobLens16
    /\ vRes = NoView
    /\ CodecIdle
    /\ MomIdle
    /\ StudyIdle
    /\ IngestIdle
    /\ LoadIdle
    /\ RunIdle
    /\ PoolIdle
    /\ FinalIdle
    /\ PipeIdle
    /\ ColsIdle
    /\ AggIdle
    /\ CalcIdle

MapView ==
    /\ vRes.err = ""
    /\ vRes' = mapTradeBlock(vHdr, vLen)
    /\ UNCHANGED <<vHdr, vLen, notView>>

ViewNext == MapView

SpecView == ViewInit /\ [][ViewNext]_vars

\* C14: a view is returned only if every column's range
\* [offset, offset + rows * 8) and the ceil(rows / 64) words of the side
\* bitset lie inside the blob, whatever the header's rows and offsets.
T_C14_ViewOnlyInsideBuffer ==
    vRes.ok =>
        /\ vRes.count = vHdr.rows
        /\ \A c \in ColumnNames : vHdr[c] + vHdr.rows * 8 <= vLen
        /\ vRes.bitWords = (vHdr.rows + 63) \div 64
        /\ vHdr.OffBits + ((vHdr.rows + 63) \div 64) * 8 <= vLen

\* a view of eight rows was made of a blob of 192 bytes that holds its
\* columns and its bitset
W_C14_ViewMade ==
    /\ vRes.ok
    /\ vHdr.rows = 8
    /\ vLen = 192

\* ---------------------------------------------------------------------------
\* FinalizeMetrics: the ratios of the aggregated Moments.  A metric is kept
\* as the division the code performs: numerator n over denominator d, or
\* over the square root of d.
\* ---------------------------------------------------------------------------

Div(n, d) == [n |-> n, d |-> d, root |-> FALSE]
DivSqrt(n, d) == [n |-> n, d |-> d, root |-> TRUE]
ZeroMetric == Div(0, 1)

\* the metric is exactly 0; the metric is NaN or an infinity
IsZero(v) == v.n = 0 /\ v.d # 0
NaNOrInf(v) == v.d = 0 \/ (v.root /\ v.d < 0)

AnyDen(d) == TRUE

\* the guards "> 0" and "> 1e-18" on a denominator
PositiveDen(d) == d > 0

RECURSIVE SeqSum(_), SeqSumSq(_)
SeqSum(s) == IF s = <<>> THEN 0 ELSE Head(s) + SeqSum(Tail(s))
SeqSumSq(s) == IF s = <<>> THEN 0 ELSE Head(s) * Head(s) + SeqSumSq(Tail(s))

\* the denominators of metrics.go FinalizeMetrics, times Count^2 where the
\* code divides by Count first
DenX(m) == m.Count * m.SumSqSig - m.SumSig * m.SumSig
DenY(m) == m.Count * m.SumSqRet - m.SumRet * m.SumRet
VarPnL(m) == m.Count * m.SumSqPnL - m.SumPnL * m.SumPnL
VarAbs(m) == m.Count * m.SumSqSig - m.SumAbsSig * m.SumAbsSig
VarICs(ics) == Len(ics) * SeqSumSq(ics) - SeqSum(ics) * SeqSum(ics)

ZeroStats ==
    [ICPearson |-> ZeroMetric, IC_TStat |-> ZeroMetric, Sharpe |-> ZeroMetric,
     HitRate |-> ZeroMetric, BreakevenBps |-> ZeroMetric, AutoCorr |-> ZeroMetric,
     AutoCorrAbs |-> ZeroMetric, AvgSegLen |-> ZeroMetric, MaxSegLen |-> ZeroMetric]

\* metrics.go: func FinalizeMetrics(m Moments, dailyICs []float64) MetricStats
FinalizeMetrics(m, dailyICs) ==
    IF m.Count <= 1 THEN ZeroStats
    ELSE
    [ICPearson |->
        IF PositiveDen(DenX(m)) /\ PositiveDen(DenY(m))
        THEN DivSqrt(m.Count * m.SumProd - m.SumSig * m.SumRet, DenX(m) * DenY(m))
        ELSE ZeroMetric,
     Sharpe |->
        IF PositiveDen(VarPnL(m)) THEN DivSqrt(m.SumPnL, VarPnL(m)) ELSE ZeroMetric,
     HitRate |->
        IF PositiveDen(m.ValidHits) THEN Div(m.Hits, m.ValidHits) ELSE ZeroMetric,
     BreakevenBps |->
        IF PositiveDen(m.SumAbsDeltaSig)
        THEN Div(m.SumPnL * BpsScale, m.SumAbsDeltaSig) ELSE ZeroMetric,
     AutoCorr |->
        IF PositiveDen(DenX(m))
        THEN Div(m.Count * m.SumProdLag - m.SumSig * m.SumSig, DenX(m))
        ELSE ZeroMetric,
     AutoCorrAbs |->
        IF m.Count > 0 /\ PositiveDen(VarAbs(m))
        THEN Div(m.Count * m.SumAbsProdLag - m.SumAbsSig * m.SumAbsSig, VarAbs(m))
        ELSE ZeroMetric,
     AvgSegLen |->
        IF PositiveDen(m.SegCount) THEN Div(m.SegLenTotal, m.SegCount) ELSE ZeroMetric,
     MaxSegLen |-> Div(m.SegLenMax, 1),
     IC_TStat |->
        IF Len(dailyICs) > 1 /\ PositiveDen(VarICs(dailyICs))
        THEN DivSqrt(SeqSum(dailyICs), VarICs(dailyICs)) ELSE ZeroMetric]

\* part_000: func FinalizeMetrics(m Moments) MetricStats
LegacyFinalizeMetrics(m) ==
    IF m.Count <= 1
    THEN [ICPearson |-> ZeroMetric, Sharpe |-> ZeroMetric, SharpeAnnual |-> ZeroMetric,
          HitRate |-> ZeroMetric, BreakevenBps |-> ZeroMetric]
    ELSE
    [ICPearson |->
        IF PositiveDen(DenX(m)) /\ PositiveDen(DenY(m))
        THEN DivSqrt(m.Count * m.SumProd - m.SumSig * m.SumRet, DenX(m) * DenY(m))
        ELSE ZeroMetric,
     Sharpe |->
        IF PositiveDen(VarPnL(m)) THEN DivSqrt(m.SumPnL, VarPnL(m)) ELSE ZeroMetric,
     SharpeAnnual |->
        IF PositiveDen(VarPnL(m)) THEN DivSqrt(m.SumPnL * m.Count, VarPnL(m) * m.Count)
        ELSE ZeroMetric,
     HitRate |->
        IF PositiveDen(m.ValidHits) THEN Div(m.Hits, m.ValidHits) ELSE ZeroMetric,
     BreakevenBps |->
        IF PositiveDen(m.Turnover) THEN Div(m.SumPnL * BpsScale, m.Turnover)
        ELSE ZeroMetric]

ICVals == {-1, 0, 1}

NoStats == [done |-> FALSE, m |-> ZeroMoments, ms |-> ZeroStats,
            lm |-> LegacyZero, lms |-> LegacyFinalizeMetrics(LegacyZero)]

FinalInit ==
    /\ \E n \in 0..MaxLen :
          /\ fSig \in [1..n -> SigVals]
          /\ fRet \in [1..n -> RetVals]
    /\ \E k \in 0..MaxICs : fICs \in [1..k -> ICVals]
    /\ fStats = NoStats
    /\ CodecIdle
    /\ MomIdle
    /\ StudyIdle
    /\ IngestIdle
    /\ LoadIdle
    /\ RunIdle
    /\ PoolIdle
    /\ ViewIdle
    /\ PipeIdle
    /\ ColsIdle
    /\ AggIdle
    /\ CalcIdle

\* the report: FinalizeMetrics of the day's Moments and the daily ICs
Finalize ==
    /\ ~fStats.done
    /\ fStats' = [done |-> TRUE,
                  m |-> CalcMomentsVectors(fSig, fRet, TRUE),
                  ms |-> FinalizeMetrics(CalcMomentsVectors(fSig, fRet, TRUE), fICs),
                  lm |-> CalcMoments(fSig, fRet, TRUE),
                  lms |-> LegacyFinalizeMetrics(CalcMoments(fSig, fRet, TRUE))]
    /\ UNCHANGED <<fSig, fRet, fICs, notFinal>>

FinalNext == Finalize

SpecFinal == FinalInit /\ [][FinalNext]_vars

MetricNames == {"ICPearson", "IC_TStat", "Sharpe", "HitRate", "BreakevenBps",
                "AutoCorr", "AutoCorrAbs", "AvgSegLen", "MaxSegLen"}
LegacyMetricNames == {"ICPearson", "Sharpe", "SharpeAnnual", "HitRate", "BreakevenBps"}

\* some variance denominator of the Moments is not positive
SomeVarianceNotPositive(m) ==
    DenX(m) <= 0 \/ DenY(m) <= 0 \/ VarPnL(m) <= 0

\* C15 as the spec states it: with count <= 1, or with a variance
\* denominator that is not positive, every derived metric is exactly 0 and
\* none is NaN or an infinity.
CX_C15_AllZeroOnBadDenominator ==
    (fStats.done /\ (fStats.m.Count <= 1 \/ SomeVarianceNotPositive(fStats.m))) =>
        \A k \in MetricNames : IsZero(fStats.ms[k]) /\ ~NaNOrInf(fStats.ms[k])

\* C15, amended: with count <= 1 every derived metric is exactly 0; with
\* count > 1 each metric whose own denominator is not positive is exactly
\* 0; and no metric is NaN or an infinity.
T_C15_ZeroPerDenominator ==
    fStats.done =>
        /\ fStats.m.Count <= 1 => \A k \in MetricNames : IsZero(fStats.ms[k])
        /\ fStats.lm.Count <= 1 => \A k \in LegacyMetricNames : IsZero(fStats.lms[k])
        /\ \A k \in MetricNames : ~NaNOrInf(fStats.ms[k])
        /\ \A k \in LegacyMetricNames : ~NaNOrInf(fStats.lms[k])
        /\ (DenX(fStats.m) <= 0 \/ DenY(fStats.m) <= 0) => IsZero(fStats.ms.ICPearson)
        /\ VarPnL(fStats.m) <= 0 => IsZero(fStats.ms.Sharpe)
        /\ fStats.m.ValidHits <= 0 => IsZero(fStats.ms.HitRate)
        /\ fStats.m.SumAbsDeltaSig <= 0 => IsZero(fStats.ms.BreakevenBps)
        /\ DenX(fStats.m) <= 0 => IsZero(fStats.ms.AutoCorr)
        /\ VarAbs(fStats.m) <= 0 => IsZero(fStats.ms.AutoCorrAbs)
        /\ fStats.m.SegCount <= 0 => IsZero(fStats.ms.AvgSegLen)
        /\ (Len(fICs) <= 1 \/ VarICs(fICs) <= 0) => IsZero(fStats.ms.IC_TStat)
        /\ (DenX(fStats.lm) <= 0 \/ DenY(fStats.lm) <= 0) => IsZero(fStats.lms.ICPearson)
        /\ VarPnL(fStats.lm) <= 0 =>
              IsZero(fStats.lms.Sharpe) /\ IsZero(fStats.lms.SharpeAnnual)
        /\ fStats.lm.Turnover <= 0 => IsZero(fStats.lms.BreakevenBps)

\* more than one row of a constant signal: the Pearson denominator is 0 and
\* the IC is 0, while the hit rate and the run lengths are not
W_C15_ConstantSignal ==
    /\ fStats.done
    /\ fStats.m.Count > 1
    /\ DenX(fStats.m) = 0
    /\ IsZero(fStats.ms.ICPearson)
    /\ ~IsZero(fStats.ms.HitRate)
    /\ ~IsZero(fStats.ms.MaxSegLen)

(***************************************************************************)
(* The worker pipelines: studySymbol, buildForSymbol, runData and          *)
(* RunTestForSymbol.  A producer sends the task identifiers into a         *)
(* buffered channel, CPUThreads workers range over it, and (studySymbol,   *)
(* runData) a collector drains a results channel.                          *)
(***************************************************************************)
TasksCap == 1       \* make(chan ofiTask, 1024), scaled

Kinds == {"study", "build", "run", "test"}

\* what processing a task does: it succeeds, it fails (an empty result, an
\* "error_*" string, an early return), or the decode panics (C1)
Outcomes(kind) ==
    IF kind \in {"study", "build"} THEN {"ok", "fail", "panic"} ELSE {"ok", "fail"}

\* the capacity of the dispatch queue of a run of n tasks
QueueCap(kind, n) == IF kind = "build" THEN TasksCap ELSE n

\* studySymbol and runData have a results channel
HasResults(kind) == kind \in {"study", "run"}

ResCapFixed(kind, n) == ResultsCap

\* the capacity of the results channel
ResCap(kind, n) == IF kind = "study" THEN ResultsCap ELSE n

CanSendAlways(q, cap) == TRUE

\* a send on a buffered channel goes through while the buffer has room
CanSend(q, cap) == Len(q) < cap

ReceivePeek(q) == q

\* a receive removes the head of the channel's buffer
Receive(q) == Tail(q)

PipeInit ==
    /\ dKind \in Kinds
    /\ \E n \in 0..MaxTasks : dOut \in [1..n -> Outcomes(dKind)]
    /\ dNext = 1
    /\ dJobs = [q |-> <<>>, closed |-> FALSE]
    /\ dW = [w \in Workers |-> [pc |-> "recv", task |-> 0]]
    /\ dRes = [q |-> <<>>, closed |-> FALSE]
    /\ dStop = FALSE
    /\ dTimer = IF dKind = "study" THEN "run" ELSE "none"
    /\ dDone = FALSE
    /\ dHist = [took |-> <<>>, ran |-> <<>>, got |-> <<>>, ticks |-> 0]
    /\ dPhase = "dispatch"
    /\ CodecIdle
    /\ MomIdle
    /\ StudyIdle
    /\ IngestIdle
    /\ LoadIdle
    /\ RunIdle
    /\ PoolIdle
    /\ ViewIdle
    /\ FinalIdle
    /\ ColsIdle
    /\ AggIdle
    /\ CalcIdle

PipeRunning == dPhase \in {"dispatch", "wait", "collect"}

AllWorkersDone == \A w \in Workers : dW[w].pc = "done"

\* "jobsChan <- i", "tasksCh <- t", "jobs <- d", "taskCh <- t"
PipeSend ==
    /\ dPhase = "dispatch"
    /\ dNext <= Len(dOut)
    /\ CanSend(dJobs.q, QueueCap(dKind, Len(dOut)))
    /\ dJobs' = [dJobs EXCEPT !.q = Append(@, dNext)]
    /\ dNext' = dNext + 1
    /\ UNCHANGED <<dKind, dOut, dW, dRes, dStop, dTimer, dDone, dHist, dPhase, notPipe>>

\* close(jobsChan); studySymbol then starts the goroutine that waits for
\* the workers and goes on to its collector loop, the others wg.Wait()
PipeCloseJobs ==
    /\ dPhase = "dispatch"
    /\ dNext > Len(dOut)
    /\ dJobs' = [dJobs EXCEPT !.closed = TRUE]
    /\ dPhase' = IF dKind = "study" THEN "collect" ELSE "wait"
    /\ UNCHANGED <<dKind, dOut, dNext, dW, dRes, dStop, dTimer, dDone, dHist, notPipe>>

\* a worker receives a task; RunTestForSymbol starts its workers after
\* close(taskCh); a runData worker returns if stopEvent is set
PipeTake(w) ==
    /\ PipeRunning
    /\ dW[w].pc = "recv"
    /\ Len(dJobs.q) > 0
    /\ dKind = "test" => dJobs.closed
    /\ dJobs' = [dJobs EXCEPT !.q = Receive(@)]
    /\ dHist' = [dHist EXCEPT !.took = Append(@, Head(dJobs.q))]
    /\ dW' = [dW EXCEPT ![w] = IF dKind = "run" /\ dStop
                                THEN [pc |-> "done", task |-> 0]
                                ELSE [pc |-> "work", task |-> Head(dJobs.q)]]
    /\ UNCHANGED <<dKind, dOut, dNext, dRes, dStop, dTimer, dDone, dPhase, notPipe>>

\* processStudyDay, processDynamicDay, processDay, the loop body of
\* RunTestForSymbol; a panic is recovered nowhere and ends the process
PipeWork(w) ==
    /\ PipeRunning
    /\ dW[w].pc = "work"
    /\ IF dOut[dW[w].task] = "panic"
       THEN /\ dPhase' = "crashed"
            /\ UNCHANGED <<dW, dHist>>
       ELSE /\ dHist' = [dHist EXCEPT !.ran = Append(@, dW[w].task)]
            /\ dW' = [dW EXCEPT ![w] = IF HasResults(dKind)
                                        THEN [pc |-> "send", task |-> dW[w].task]
                                        ELSE [pc |-> "recv", task |-> 0]]
            /\ UNCHANGED dPhase
    /\ UNCHANGED <<dKind, dOut, dNext, dJobs, dRes, dStop, dTimer, dDone, notPipe>>

\* "resultsChan <- res", "results <- processDay(d)"
PipeSendResult(w) ==
    /\ PipeRunning
    /\ dW[w].pc = "send"
    /\ CanSend(dRes.q, ResCap(dKind, Len(dOut)))
    /\ dRes' = [dRes EXCEPT !.q = Append(@, dW[w].task)]
    /\ dW' = [dW EXCEPT ![w] = [pc |-> "recv", task |-> 0]]
    /\ UNCHANGED <<dKind, dOut, dNext, dJobs, dStop, dTimer, dDone, dHist, dPhase, notPipe>>

\* the range over the closed, drained channel ends; wg.Done()
PipeWorkerExit(w) ==
    /\ PipeRunning
    /\ dW[w].pc = "recv"
    /\ Len(dJobs.q) = 0
    /\ dJobs.closed
    /\ dW' = [dW EXCEPT ![w].pc = "done"]
    /\ UNCHANGED <<dKind, dOut, dNext, dJobs, dRes, dStop, dTimer, dDone, dHist, dPhase, notPipe>>

\* wg.Wait(); close(resultsChan) in studySymbol's goroutine,
\* wg.Wait(); close(results) in runData
PipeCloseResults ==
    /\ HasResults(dKind)
    /\ dPhase = (IF dKind = "study" THEN "collect" ELSE "wait")
    /\ AllWorkersDone
    /\ ~dRes.closed
    /\ dRes' = [dRes EXCEPT !.closed = TRUE]
    /\ dPhase' = "collect"
    /\ UNCHANGED <<dKind, dOut, dNext, dJobs, dW, dStop, dTimer, dDone, dHist, notPipe>>

\* close(doneChan)
PipeCloseDone ==
    /\ dKind = "study"
    /\ dPhase \in {"collect", "done"}
    /\ dRes.closed
    /\ ~dDone
    /\ dDone' = TRUE
    /\ UNCHANGED <<dKind, dOut, dNext, dJobs, dW, dRes, dStop, dTimer, dHist, dPhase, notPipe>>

\* one iteration of "for res := range resultsChan", "for r := range results";
\* runData starts it after close(results)
PipeCollect ==
    /\ dPhase = "collect"
    /\ dKind = "run" => dRes.closed
    /\ Len(dRes.q) > 0
    /\ dHist' = [dHist EXCEPT !.got = Append(@, Head(dRes.q))]
    /\ dRes' = [dRes EXCEPT !.q = Receive(@)]
    /\ UNCHANGED <<dKind, dOut, dNext, dJobs, dW, dStop, dTimer, dDone, dPhase, notPipe>>

\* the collector loop ends and the report is printed; buildForSymbol and
\* RunTestForSymbol go on when wg.Wait() returns
PipeFinish ==
    /\ \/ dPhase = "collect" /\ Len(dRes.q) = 0 /\ dRes.closed
       \/ dPhase = "wait" /\ ~HasResults(dKind) /\ AllWorkersDone
    /\ dPhase' = "done"
    /\ UNCHANGED <<dKind, dOut, dNext, dJobs, dW, dRes, dStop, dTimer, dDone, dHist, notPipe>>

\* the interrupt handler of runData: stopEvent.Store(true)
PipeStop ==
    /\ dKind = "run"
    /\ PipeRunning
    /\ ~dStop
    /\ dStop' = TRUE
    /\ UNCHANGED <<dKind, dOut, dNext, dJobs, dW, dRes, dTimer, dDone, dHist, dPhase, notPipe>>

\* case <-ticker.C: printProgress
PipeTick ==
    /\ dTimer = "run"
    /\ dPhase # "crashed"
    /\ dHist.ticks < MaxTicks
    /\ dHist' = [dHist EXCEPT !.ticks = @ + 1]
    /\ UNCHANGED <<dKind, dOut, dNext, dJobs, dW, dRes, dStop, dTimer, dDone, dPhase, notPipe>>

\* case <-doneChan: the progress goroutine returns
PipeTimerExit ==
    /\ dTimer = "run"
    /\ dPhase # "crashed"
    /\ dDone
    /\ dTimer' = "done"
    /\ UNCHANGED <<dKind, dOut, dNext, dJobs, dW, dRes, dStop, dDone, dHist, dPhase, notPipe>>

PipeNext ==
    \/ PipeSend
    \/ PipeCloseJobs
    \/ \E w \in Workers : PipeTake(w)
    \/ \E w \in Workers : PipeWork(w)
    \/ \E w \in Workers : PipeSendResult(w)
    \/ \E w \in Workers : PipeWorkerExit(w)
    \/ PipeCloseResults
    \/ PipeCloseDone
    \/ PipeCollect
    \/ PipeFinish
    \/ PipeStop
    \/ PipeTick
    \/ PipeTimerExit

SpecPipe == PipeInit /\ [][PipeNext]_vars

\* C16: the dispatch queue never holds more task identifiers than its
\* capacity, so the tasks sent and not yet taken by a worker never exceed
\* the capacity: the producer's send waits while the queue is full.
T_C16_QueueBounded ==
    dKind \in Kinds =>
        /\ Len(dJobs.q) <= QueueCap(dKind, Len(dOut))
        /\ (dNext - 1) - Len(dHist.took) <= QueueCap(dKind, Len(dOut))

\* buildForSymbol's producer has a task left to send and the queue is full
W_C16_ProducerBlocked ==
    /\ dKind = "build"
    /\ dPhase = "dispatch"
    /\ Len(dJobs.q) = TasksCap
    /\ dNext <= Len(dOut)
    /\ Len(dHist.took) > 0

\* the Go scheduler runs every goroutine that can take a step; the ticks of
\* the timer and the interrupt are events of the environment
FairPipe ==
    /\ SpecPipe
    /\ WF_vars(PipeSend)
    /\ WF_vars(PipeCloseJobs)
    /\ \A w \in Workers : WF_vars(PipeTake(w))
    /\ \A w \in Workers : WF_vars(PipeWork(w))
    /\ \A w \in Workers : WF_vars(PipeSendResult(w))
    /\ \A w \in Workers : WF_vars(PipeWorkerExit(w))
    /\ WF_vars(PipeCloseResults)
    /\ WF_vars(PipeCloseDone)
    /\ WF_vars(PipeCollect)
    /\ WF_vars(PipeFinish)
    /\ WF_vars(PipeTimerExit)

\* the run is over: the main goroutine is past its report, every worker has
\* returned and the progress goroutine has returned, or a panic has ended
\* the process
PipeTerminated ==
    \/ dPhase = "crashed"
    \/ /\ dPhase = "done"
       /\ AllWorkersDone
       /\ dTimer \in {"none", "done"}

\* C17: every run terminates, for any number of tasks and any pattern of
\* failures: the workers, the collector and the progress timer all finish,
\* none blocked for ever on the job queue, the results queue or the
\* WaitGroup.
T_C17_EveryRunTerminates == <>PipeTerminated

\* a run of studySymbol over MaxTasks days, one of them failing, is over
\* after the progress timer has ticked
W_C17_StudyRunOver ==
    /\ dKind = "study"
    /\ PipeTerminated
    /\ dPhase = "done"
    /\ Len(dOut) = MaxTasks
    /\ \E t \in 1..Len(dOut) : dOut[t] = "fail"
    /\ dHist.ticks > 0

NoDup(s) == \A i, j \in 1..Len(s) : i # j => s[i] # s[j]

\* each of the n tasks is in s exactly once
EachOnce(s, n) == NoDup(s) /\ {s[i] : i \in 1..Len(s)} = 1..n

\* every task was taken, run and (where there is a results channel)
\* collected exactly once
AllTasksThrough ==
    /\ EachOnce(dHist.took, Len(dOut))
    /\ EachOnce(dHist.ran, Len(dOut))
    /\ HasResults(dKind) => EachOnce(dHist.got, Len(dOut))

-----------------------------------------------------------------------------
(* The row counts a blob records: in its header and in its chunk headers.  *)

\* binary.LittleEndian.Uint32(rawBlob[4:8])
HeaderRows(blob) == USat(blob, 4, 4)

\* where the chunk count of the footer is
ChunkCountPos(blob) == USat(blob, 24, 8) + 4 + 8 * USat(blob, USat(blob, 24, 8), 4)

\* binary.LittleEndian.Uint16(chunk[0:2]) of chunk k (from 0)
ChunkRows(blob, k) == USat(blob, USat(blob, ChunkCountPos(blob) + 4 + 4 * k, 4), 2)

BlobChunks(blob) == 0..(USat(blob, ChunkCountPos(blob), 4) - 1)

RECURSIVE ChunkRowsSum(_, _)
ChunkRowsSum(blob, k) ==
    IF k \notin BlobChunks(blob) THEN 0
    ELSE ChunkRows(blob, k) + ChunkRowsSum(blob, k + 1)

\* C19: in every blob Encode produces, the row counts of the chunk headers
\* sum to the row count of the blob header, and no chunk holds more than
\* GNCChunkSize rows.
CX_C19_ChunkCountsSumToRows ==
    (cPhase = "encoded") =>
        /\ ChunkRowsSum(cBlob, 0) = HeaderRows(cBlob)
        /\ \A k \in BlobChunks(cBlob) : ChunkRows(cBlob, k) <= GNCChunkSize

\* what does hold: the header has the day's row count, a chunk header has
\* its chunk's row count cut to 16 bits, so that the sum falls short of the
\* header by GNCChunkSize for every full chunk
ChunkCountsSumUpToWrap ==
    (cPhase = "encoded") =>
        /\ HeaderRows(cBlob) = Len(cDay.Ts)
        /\ \A k \in BlobChunks(cBlob) : ChunkRows(cBlob, k) < GNCChunkSize
        /\ ChunkRowsSum(cBlob, 0) + GNCChunkSize * (Len(cDay.Ts) \div GNCChunkSize)
               = HeaderRows(cBlob)

\* C20: after a Decode that returns ok = true the time, price, quantity,
\* side and match-count columns have one length, which is the returned row
\* count and the row count of the blob header.
CX_C20_ColumnsMatchHeader ==
    (cPhase = "decoded" /\ cDec.st = "ok") =>
        /\ Len(cDec.cols.Times) = cDec.cols.Count
        /\ Len(cDec.cols.Prices) = cDec.cols.Count
        /\ Len(cDec.cols.Qtys) = cDec.cols.Count
        /\ Len(cDec.cols.Sides) = cDec.cols.Count
        /\ Len(cDec.cols.Matches) = cDec.cols.Count
        /\ cDec.cols.Count = HeaderRows(cBlob)

\* what does hold: the columns are parallel and as long as the returned count
DecodedColumnsParallel ==
    (cPhase = "decoded" /\ cDec.st = "ok") =>
        /\ Len(cDec.cols.Times) = cDec.cols.Count
        /\ Len(cDec.cols.Prices) = cDec.cols.Count
        /\ Len(cDec.cols.Qtys) = cDec.cols.Count
        /\ Len(cDec.cols.Sides) = cDec.cols.Count
        /\ Len(cDec.cols.Matches) = cDec.cols.Count

-----------------------------------------------------------------------------
(* A pooled DayColumns instance serves one task after another.  The callers *)
(* of inflateGNCToColumns (processStudyDay, processDynamicDay, the day loop *)
(* of part_003) call cols.Reset() first; InflateGNC of part_006 resets the  *)
(* columns itself.                                                          *)

\* a three-row day: two chunks
ThreeRowBlob ==
    encodeGNC([Ts |-> <<5, 6, 10>>, Ps |-> <<7, 7, 9>>, Qs |-> <<1, 2, 1>>,
               Ms |-> <<1, 1, 1>>, Buys |-> <<TRUE, TRUE, FALSE>>]).bytes

\* the three-row blob with the first chunk said to hold one row and the
\* offset of the second chunk past the end: Decode fails after one row
PartialBlob ==
    Patch(Patch(ThreeRowBlob, GNCHeaderSize, 2, 1),
          ChunkOffsetPos(ThreeRowBlob) + 4, 4, Len(ThreeRowBlob))

\* a blob whose header says zero rows
ZeroRowsBlob == Patch(GoodBlob, 4, 4, 0)

ColsBlobs == {GoodBlob, ThreeRowBlob, PartialBlob, ZeroRowsBlob, BadMagicBlob}

\* what mapTradeBlock hands to InflateGNC: an error, or the mapped columns
TradeBlocks ==
    { [err |-> TRUE, Count |-> 0, Times |-> <<>>, Prices |-> <<>>, Quantities |-> <<>>],
      [err |-> FALSE, Count |-> 0, Times |-> <<>>, Prices |-> <<>>, Quantities |-> <<>>],
      [err |-> FALSE, Count |-> 1, Times |-> <<5>>, Prices |-> <<7>>, Quantities |-> <<1>>],
      [err |-> FALSE, Count |-> 2, Times |-> <<5, 6>>, Prices |-> <<7, 9>>,
       Quantities |-> <<1, 2>>] }

\* func (c *DayColumns) FillFromTradeBlock(tb *TradeBlock)
FillFromTradeBlock(c, tb) ==
    IF tb.Count = 0 THEN ResetCols(c)
    ELSE [ResetCols(c) EXCEPT !.Count = tb.Count, !.Times = tb.Times,
                              !.Prices = tb.Prices, !.Qtys = tb.Quantities]

\* func InflateGNC(rawBlob []byte, cols *DayColumns) (int, error)
InflateGNC(tb, cols) ==
    IF tb.err THEN DecResult("fail", FALSE, ResetCols(cols))
    ELSE IF tb.Count = 0 THEN DecResult("ok", FALSE, ResetCols(cols))
    ELSE DecResult("ok", FALSE, FillFromTradeBlock(ResetCols(cols), tb))

ColsCallers == {"gnc", "tbv1"}

ColsInit ==
    /\ kCaller \in ColsCallers
    /\ kCols = EmptyCols
    /\ kIn = <<>>
    /\ kPc = "idle"
    /\ kN = 0
    /\ CodecIdle
    /\ MomIdle
    /\ StudyIdle
    /\ IngestIdle
    /\ LoadIdle
    /\ RunIdle
    /\ PoolIdle
    /\ ViewIdle
    /\ FinalIdle
    /\ PipeIdle
    /\ AggIdle
    /\ CalcIdle

\* DayColumnPool.Get(): the instance the last task put back, or a new one
ColsGet ==
    /\ kPc = "idle"
    /\ kN < MaxColTasks
    /\ kCols' \in {kCols, EmptyCols}
    /\ \E day \in (IF kCaller = "gnc" THEN ColsBlobs ELSE TradeBlocks) :
           kIn' = [day |-> day, had |-> Len(kCols'.Times)]
    /\ kPc' = IF kCaller = "gnc" THEN "reset" ELSE "decode"
    /\ UNCHANGED <<kCaller, kN, notCols>>

\* cols.Reset() of processStudyDay, processDynamicDay and part_003
ColsReset ==
    /\ kPc = "reset"
    /\ kCols' = ResetCols(kCols)
    /\ kPc' = "decode"
    /\ UNCHANGED <<kCaller, kIn, kN, notCols>>

\* loadDayColumns -> inflateGNCToColumns(raw, cols), or InflateGNC(buf, cols)
ColsDecode ==
    /\ kPc = "decode"
    /\ \E r \in {IF kCaller = "gnc" THEN inflateGNCToColumns(kIn.day, kCols)
                 ELSE InflateGNC(kIn.day, kCols)} :
           /\ kCols' = r.cols
           /\ kPc' = r.st
    /\ UNCHANGED <<kCaller, kIn, kN, notCols>>

\* the task returns; DayColumnPool.Put(cols) (deferred)
ColsPut ==
    /\ kPc \in {"ok", "fail"}
    /\ kPc' = "idle"
    /\ kN' = kN + 1
    /\ UNCHANGED <<kCaller, kCols, kIn, notCols>>

ColsNext == ColsGet \/ ColsReset \/ ColsDecode \/ ColsPut

SpecCols == ColsInit /\ [][ColsNext]_vars

\* the columns the day decodes to in a new instance
FreshDecode(caller, in) ==
    IF caller = "gnc" THEN inflateGNCToColumns(in, EmptyCols).cols
    ELSE InflateGNC(in, EmptyCols).cols

ColsEmpty(c) ==
    /\ Len(c.Times) = 0
    /\ Len(c.Prices) = 0
    /\ Len(c.Qtys) = 0
    /\ Len(c.Sides) = 0
    /\ Len(c.Matches) = 0

\* C21: a DayColumns taken from the pool has every array at length zero
\* when rows are decoded into it, so after a Decode the columns hold the
\* rows of this day only, none of a day decoded into the instance before.
T_C21_ResetBeforeDecode ==
    /\ (kPc = "decode" /\ kCaller = "gnc") => ColsEmpty(kCols)
    /\ kPc \in {"ok", "fail"} => kCols = FreshDecode(kCaller, kIn.day)

\* the instance held the rows of an earlier day when it was taken
\* from the pool, and has decoded a one-row day
W_C21_ReusedAfterRows ==
    /\ kPc = "ok"
    /\ kCaller = "gnc"
    /\ kIn.had > 0
    /\ kIn.day = GoodBlob
    /\ kCols.Count = 1

-----------------------------------------------------------------------------
\* C22: CalcMoments on arrays of length 0 or 1 returns the zero Moments,
\* count 0 and every other field 0.
CX_C22_ShortArraysGiveZero ==
    (fStats.done /\ Len(fSig) < 2) =>
        /\ fStats.m = ZeroMoments
        /\ fStats.lm = LegacyZero

\* what does hold: the empty array gives the zero Moments in both versions,
\* one row gives the zero Moments in part_000 and a count of 1 in metrics.go
ZeroMomentsOnlyForEmpty ==
    fStats.done =>
        /\ Len(fSig) = 0 => fStats.m = ZeroMoments /\ fStats.lm = LegacyZero
        /\ Len(fSig) = 1 => fStats.m.Count = 1 /\ fStats.lm = LegacyZero

-----------------------------------------------------------------------------
(* Runs of a signal series, as the spec defines them.                      *)

Sign(x) == IF x > 0 THEN 1 ELSE IF x < 0 THEN -1 ELSE 0

\* rows a..b are a maximal stretch of strictly positive or of strictly
\* negative values
IsRun(sig, a, b) ==
    /\ a <= b
    /\ Sign(sig[a]) # 0
    /\ \A i \in a..b : Sign(sig[i]) = Sign(sig[a])
    /\ a = 1 \/ Sign(sig[a - 1]) # Sign(sig[a])
    /\ b = Len(sig) \/ Sign(sig[b + 1]) # Sign(sig[a])

RunsOf(sig) == { ab \in (1..Len(sig)) \X (1..Len(sig)) : IsRun(sig, ab[1], ab[2]) }

LongestRunOf(sig) ==
    IF RunsOf(sig) = {} THEN 0
    ELSE CHOOSE k \in 1..Len(sig) :
             /\ \E ab \in RunsOf(sig) : ab[2] - ab[1] + 1 = k
             /\ \A ab \in RunsOf(sig) : ab[2] - ab[1] + 1 <= k

\* C23: CalcMoments reports the number of maximal same-sign stretches as
\* the run count, the number of non-zero signal values as the total run
\* length and the length of the longest stretch as the max run length; the
\* run open at the end of the array is counted.
T_C23_RunsCounted ==
    fStats.done =>
        /\ fStats.m.SegCount = Cardinality(RunsOf(fSig))
        /\ fStats.m.SegLenTotal = Cardinality({i \in 1..Len(fSig) : fSig[i] # 0})
        /\ fStats.m.SegLenMax = LongestRunOf(fSig)

\* a zero closes a run and a run is open at the end of the array
W_C23_ZeroClosesRunOpenAtEnd ==
    /\ fStats.done
    /\ Len(fSig) = MaxLen
    /\ fSig[MaxLen - 1] = 0
    /\ fSig[MaxLen] < 0
    /\ fSig[1] > 0
    /\ fStats.m.SegCount = 2

-----------------------------------------------------------------------------
\* the series is two days, the first of mCut[1] rows, and a run of one
\* sign goes on from the last row of the first day to the first of the next
RunSpansDays ==
    /\ mCut[1] >= 1
    /\ mCut[2] = Len(mSig)
    /\ mCut[2] > mCut[1]
    /\ Sign(mSig[mCut[1]]) # 0
    /\ Sign(mSig[mCut[1]]) = Sign(mSig[mCut[1] + 1])

\* C24: runs are not continued across days: the merged run count is the
\* sum of the two days' run counts and the merged max run length the larger
\* of the two days' maxima, so that a run that spans the day boundary is
\* counted as two runs.
T_C24_RunsEndWithTheDay ==
    (mPhase = "merged") =>
        /\ mOut.ab.SegCount = mParts.a.SegCount + mParts.b.SegCount
        /\ mOut.ab.SegLenMax = IF mParts.b.SegLenMax > mParts.a.SegLenMax
                               THEN mParts.b.SegLenMax ELSE mParts.a.SegLenMax
        /\ RunSpansDays => mOut.ab.SegCount = mParts.w.SegCount + 1

\* a run spans the boundary of two days and is the longest of the joined
\* series, longer than the longest run of either day
W_C24_RunAcrossDays ==
    /\ mPhase = "merged"
    /\ RunSpansDays
    /\ mOut.ab.SegCount = 2
    /\ mParts.w.SegCount = 1
    /\ mOut.ab.SegLenMax < mParts.w.SegLenMax

-----------------------------------------------------------------------------
\* the days merged so far whose date is before the cutoff, and the others
MergedInSample == { sExact.order[i] : i \in {j \in 1..Len(sExact.order) :
                                                sExact.order[j] < sBoundary} }
MergedOutOfSample == { sExact.order[i] : i \in {j \in 1..Len(sExact.order) :
                                                   sExact.order[j] >= sBoundary} }

\* C25: each day that produced results is merged into exactly one of the
\* two global buckets, the out-of-sample one if its date is on or after
\* the cutoff and the in-sample one otherwise, and is counted in that
\* bucket's day count only.
T_C25_OneBucketPerDay ==
    sPhase \in {"run", "done"} =>
        /\ Cardinality(MergedInSample) + Cardinality(MergedOutOfSample) = Len(sExact.order)
        /\ sAcc.isDays = Cardinality(MergedInSample)
        /\ sAcc.oosDays = Cardinality(MergedOutOfSample)
        /\ Len(sAcc.isDailyIC) = Cardinality(MergedInSample)
        /\ Len(sAcc.oosDailyIC) = Cardinality(MergedOutOfSample)
        /\ sExact.acc.isAcc.Count = SumOver(MergedInSample, "Count")
        /\ sExact.acc.oosAcc.Count = SumOver(MergedOutOfSample, "Count")

\* the run is over with a day merged on each side of the cutoff, the
\* out-of-sample day being the day of the cutoff itself
W_C25_DayOnEachSide ==
    /\ sPhase = "done"
    /\ sBoundary \in MergedOutOfSample
    /\ MergedInSample # {}
    /\ sAcc.oosDays = 1
    /\ sAcc.isDays >= 1

-----------------------------------------------------------------------------
(* The global aggregation state and its lock.  studySymbol merges in the   *)
(* collector (the main goroutine) under accMu; validateMonth's workers     *)
(* merge into the global report under report.Mu (mergeReport), and the     *)
(* goroutines of runStudy into globalStats under mu.  A merge reads the    *)
(* state and writes it back; the report reads it.                          *)

AggKinds == {"collector", "workers"}
AggThreads == 0..CPUThreads
NoHolder == -1
NoReport == [done |-> FALSE, glob |-> {}]

LockAnyway(mu) == TRUE

\* sync.Mutex.Lock goes through when no thread holds the mutex
LockFree(mu) == mu = NoHolder

AggInit ==
    /\ aKind \in AggKinds
    /\ \E n \in 0..MaxAggTasks : aOut \in [1..n -> {"merge", "skip"}]
    /\ aNext = 1
    /\ aT = [t \in AggThreads |->
                [pc |-> IF t = 0 THEN (IF aKind = "collector" THEN "recv" ELSE "wait")
                        ELSE "job",
                 task |-> 0, tmp |-> {}]]
    /\ aMu = NoHolder
    /\ aGlob = {}
    /\ aRes = [q |-> <<>>, closed |-> FALSE]
    /\ aReport = NoReport
    /\ CodecIdle
    /\ MomIdle
    /\ StudyIdle
    /\ IngestIdle
    /\ LoadIdle
    /\ RunIdle
    /\ PoolIdle
    /\ ViewIdle
    /\ FinalIdle
    /\ PipeIdle
    /\ ColsIdle
    /\ CalcIdle

\* a worker takes the next task and processes it into local accumulators;
\* studySymbol's worker sends its result, the others go on to merge theirs
\* (a task with nothing to merge returns)
AggWork(t) ==
    /\ t # 0
    /\ aT[t].pc = "job"
    /\ aNext <= Len(aOut)
    /\ aNext' = aNext + 1
    /\ IF aKind = "collector"
       THEN /\ aRes' = [aRes EXCEPT !.q = Append(@, aNext)]
            /\ UNCHANGED aT
       ELSE /\ aT' = [aT EXCEPT ![t] = IF aOut[aNext] = "merge"
                                       THEN [pc |-> "lock", task |-> aNext, tmp |-> {}]
                                       ELSE @]
            /\ UNCHANGED aRes
    /\ UNCHANGED <<aKind, aOut, aMu, aGlob, aReport, notAgg>>

\* the job channel is closed and drained: wg.Done()
AggWorkerExit(t) ==
    /\ t # 0
    /\ aT[t].pc = "job"
    /\ aNext > Len(aOut)
    /\ aT' = [aT EXCEPT ![t].pc = "done"]
    /\ UNCHANGED <<aKind, aOut, aNext, aMu, aGlob, aRes, aReport, notAgg>>

\* wg.Wait(); close(resultsChan)
AggCloseResults ==
    /\ aKind = "collector"
    /\ \A t \in AggThreads \ {0} : aT[t].pc = "done"
    /\ ~aRes.closed
    /\ aRes' = [aRes EXCEPT !.closed = TRUE]
    /\ UNCHANGED <<aKind, aOut, aNext, aT, aMu, aGlob, aReport, notAgg>>

\* for res := range resultsChan; "if len(res.Metrics) == 0 { continue }"
AggCollect ==
    /\ aT[0].pc = "recv"
    /\ Len(aRes.q) > 0
    /\ aRes' = [aRes EXCEPT !.q = Tail(@)]
    /\ aT' = [aT EXCEPT ![0] = IF aOut[Head(aRes.q)] = "merge"
                               THEN [pc |-> "lock", task |-> Head(aRes.q), tmp |-> {}]
                               ELSE @]
    /\ UNCHANGED <<aKind, aOut, aNext, aMu, aGlob, aReport, notAgg>>

\* accMu.Lock(), report.Mu.Lock(), mu.Lock()
AggLock(t) ==
    /\ aT[t].pc = "lock"
    /\ LockFree(aMu)
    /\ aMu' = t
    /\ aT' = [aT EXCEPT ![t].pc = "read"]
    /\ UNCHANGED <<aKind, aOut, aNext, aGlob, aRes, aReport, notAgg>>

\* the read of "tMoments[hIdx].Add(m)", "report.TotalTrades += trades"
AggRead(t) ==
    /\ aT[t].pc = "read"
    /\ aT' = [aT EXCEPT ![t].pc = "write", ![t].tmp = aGlob]
    /\ UNCHANGED <<aKind, aOut, aNext, aMu, aGlob, aRes, aReport, notAgg>>

\* the write of the merge
AggWrite(t) ==
    /\ aT[t].pc = "write"
    /\ aGlob' = aT[t].tmp \cup {aT[t].task}
    /\ aT' = [aT EXCEPT ![t].pc = "unlock"]
    /\ UNCHANGED <<aKind, aOut, aNext, aMu, aRes, aReport, notAgg>>

\* accMu.Unlock(), report.Mu.Unlock(), mu.Unlock()
AggUnlock(t) ==
    /\ aT[t].pc = "unlock"
    /\ aMu' = NoHolder
    /\ aT' = [aT EXCEPT ![t] = [pc |-> IF t = 0 THEN "recv" ELSE "job",
                                task |-> 0, tmp |-> {}]]
    /\ UNCHANGED <<aKind, aOut, aNext, aGlob, aRes, aReport, notAgg>>

\* the report: after the collector loop ended on the closed channel
\* (studySymbol), after wg.Wait() (runSanity, runStudy)
AggReport ==
    /\ ~aReport.done
    /\ \/ aT[0].pc = "recv" /\ Len(aRes.q) = 0 /\ aRes.closed
       \/ aT[0].pc = "wait" /\ \A t \in AggThreads \ {0} : aT[t].pc = "done"
    /\ aReport' = [done |-> TRUE, glob |-> aGlob]
    /\ aT' = [aT EXCEPT ![0].pc = "done"]
    /\ UNCHANGED <<aKind, aOut, aNext, aMu, aGlob, aRes, notAgg>>

AggNext ==
    \/ \E t \in AggThreads : AggWork(t)
    \/ \E t \in AggThreads : AggWorkerExit(t)
    \/ AggCloseResults
    \/ AggCollect
    \/ \E t \in AggThreads : AggLock(t)
    \/ \E t \in AggThreads : AggRead(t)
    \/ \E t \in AggThreads : AggWrite(t)
    \/ \E t \in AggThreads : AggUnlock(t)
    \/ AggReport

SpecAgg == AggInit /\ [][AggNext]_vars

\* the threads that are between the read and the write-back of a merge
Merging == { t \in AggThreads : aT[t].pc \in {"read", "write", "unlock"} }

\* the tasks that have something to merge
ToMerge == { k \in 1..Len(aOut) : aOut[k] = "merge" }

-----------------------------------------------------------------------------
(* SpecLegacy: blobs of the older schema.  A chunk of the older schema is  *)
(* the chunk written by encodeChunk without the match-count array: the     *)
(* side bits follow the quantity ids directly (pSideLegacy = pQty + n*2 in *)
(* inflateGNCToColumns).  Header, footer and offsets are as in encodeGNC.  *)

encodeChunkLegacy(bufs, start, end, log) ==
    LET count == end - start
        ts == SubSeq0(bufs.Ts, start, end)
        ps == SubSeq0(bufs.Ps, start, end)
        qs == SubSeq0(bufs.Qs, start, end)
        buys == SubSeq0(bufs.Buys, start, end)
        st == EncRows(ts, ps, qs, 0,
                      [err |-> "none", log |-> log, td |-> <<>>, pd |-> <<>>, qi |-> <<>>])
    IN  IF st.err # "none"
        THEN [err |-> st.err, log |-> st.log, bytes |-> <<>>]
        ELSE [err |-> "none", log |-> st.log,
              bytes |-> LE(ChunkCountField(count), 2) \o LE(ts[1], 8) \o LE(ps[1], 8)
                        \o Flat(st.td, 4) \o Flat(st.pd, 8) \o Flat(st.qi, 2)
                        \o SideBits(buys)]

RECURSIVE EncChunksLegacy(_, _, _, _)
EncChunksLegacy(bufs, count, i, st) ==
    IF st.err # "none" \/ i >= count THEN st
    ELSE LET end == IF i + GNCChunkSize > count THEN count ELSE i + GNCChunkSize
             c   == encodeChunkLegacy(bufs, i, end, st.log)
         IN  EncChunksLegacy(bufs, count, i + GNCChunkSize,
                             [err |-> c.err, log |-> c.log,
                              body |-> st.body \o c.bytes,
                              offs |-> Append(st.offs, GNCHeaderSize + Len(st.body))])

encodeGNCLegacy(bufs) ==
    LET count == Len(bufs.Ts)
    IN  IF count = 0 THEN [err |-> "none", count |-> 0, bytes |-> <<>>]
        ELSE LET st == EncChunksLegacy(bufs, count, 0,
                                 [err |-> "none", log |-> <<>>, body |-> <<>>, offs |-> <<>>])
                 footerStart == GNCHeaderSize + Len(st.body)
             IN  IF st.err # "none"
                 THEN [err |-> st.err, count |-> 0, bytes |-> <<>>]
                 ELSE [err |-> "none", count |-> count,
                       bytes |-> GNCMagic \o LE(count, 4) \o LE(bufs.Ts[1], 8)
                                 \o LE(bufs.Ps[1], 8) \o LE(footerStart, 8)
                                 \o st.body
                                 \o LE(Len(st.log), 4) \o Flat(st.log, 8)
                                 \o LE(Len(st.offs), 4) \o Flat(st.offs, 4)]

LegacyInit ==
    /\ cDay \in DaysUpTo(MaxRows)
    /\ cBlob = <<>>
    /\ cDec = NoDec
    /\ cPhase = "input"
    /\ cFuzzN = 0
    /\ MomIdle
    /\ StudyIdle
    /\ IngestIdle
    /\ LoadIdle
    /\ RunIdle
    /\ PoolIdle
    /\ ViewIdle
    /\ FinalIdle
    /\ PipeIdle
    /\ ColsIdle
    /\ AggIdle
    /\ CalcIdle

\* a day file of the older schema is on disk
EncodeLegacy ==
    /\ cPhase = "input"
    /\ LET e == encodeGNCLegacy(cDay)
       IN  /\ cBlob' = e.bytes
           /\ cPhase' = IF e.err = "none" THEN "legacy" ELSE "encfail"
    /\ UNCHANGED <<cDay, cDec, cFuzzN, notCodec>>

\* processStudyDay: cols.Reset(); loadDayColumns -> inflateGNCToColumns(raw, cols)
DecodeLegacy ==
    /\ cPhase = "legacy"
    /\ cDec' = inflateGNCToColumns(cBlob, ResetCols(EmptyCols))
    /\ cPhase' = "legacy_decoded"
    /\ UNCHANGED <<cDay, cBlob, cFuzzN, notCodec>>

LegacyNext == EncodeLegacy \/ DecodeLegacy

SpecLegacy == LegacyInit /\ [][LegacyNext]_vars

\* C27: a blob of the older schema, with any number of chunks, is decoded
\* to the time, price, quantity and side that were encoded for every row,
\* and every match count is the default 1.
CX_C27_LegacyBlobDecoded ==
    (cPhase = "legacy_decoded") =>
        /\ RoundTripOK
        /\ cDec.cols.Matches = [i \in 1..Len(cDay.Ts) |-> 1]

\* what does hold for a day of one chunk that is not full: the arrays that
\* precede the match counts (times, prices, quantity ids) are decoded as
\* they were encoded
LegacyLeadingColumnsDecoded ==
    (cPhase = "legacy_decoded" /\ Len(cDay.Ts) % GNCChunkSize = Len(cDay.Ts)) =>
        /\ cDec.st = "ok"
        /\ cDec.cols.Times = ExpectTimes(cDay)
        /\ cDec.cols.Prices = ExpectPrices(cDay)
        /\ cDec.cols.Qtys = ExpectQtys(cDay)

\* what fails already for a day of one row: the chunk is read as one of
\* the newer schema, so the match count and the side come from other bytes
LegacyOneRowMisread ==
    (cPhase = "legacy_decoded" /\ Len(cDay.Ts) = 1) =>
        /\ cDec.st = "ok"
        /\ cDec.cols.Matches # <<1>>

-----------------------------------------------------------------------------
(* SpecQuant: ComputeQuantilesStrided (metrics.go).  The returns of a day  *)
(* are distinct (the return of row i is i), so that a pair names its row;  *)
(* the signals repeat.  slices.SortFunc is not stable: every ascending     *)
(* order of the pairs is an outcome of the sort.  The sums are sums of     *)
(* small integers (exact in float64); a mean is kept as the quotient the   *)
(* code computes.  lo and hi are start and end of the bucket's loop.       *)

QSigVals == {1, 2, 3}

QuantInputs(n) ==
    { [sigs |-> s, rets |-> [i \in 1..n |-> i], numBuckets |-> k, stride |-> st] :
        s \in [1..n -> QSigVals], k \in 0..MaxBuckets, st \in 1..MaxStride }

QuantInputsUpTo(m) == UNION { QuantInputs(n) : n \in 0..m }

RECURSIVE StridePairs(_, _, _, _)
\* for i := 0; i < n; i += stride { pairs = append(pairs, pair{sigs[i], rets[i]}) }
StridePairs(sigs, rets, stride, i) ==
    IF i >= Len(sigs) THEN <<>>
    ELSE <<[s |-> sigs[i + 1], r |-> rets[i + 1]]>> \o StridePairs(sigs, rets, stride, i + stride)

RECURSIVE SortedOrders(_, _)
\* slices.SortFunc(pairs, by s): the orders of the positions S of pairs in
\* which no pair precedes one of a smaller signal
SortedOrders(pairs, S) ==
    IF S = {} THEN {<<>>}
    ELSE UNION { { <<pairs[x]>> \o t : t \in SortedOrders(pairs, S \ {x}) } :
                 x \in { y \in S : \A z \in S : pairs[y].s <= pairs[z].s } }

\* the end of bucket b that takes no remainder
BucketEndNoRemainder(b, bucketSize, numBuckets, subN) ==
    LET end == b * bucketSize + bucketSize
    IN  IF end > subN THEN subN ELSE end

\* end := start + bucketSize; if b == numBuckets-1 || end > subN { end = subN }
BucketEnd(b, bucketSize, numBuckets, subN) ==
    LET end == b * bucketSize + bucketSize
    IN  IF b = numBuckets - 1 \/ end > subN THEN subN ELSE end

RECURSIVE SumPairs(_, _, _, _)
\* for i := start; i < end; i++ { sum += pairs[i].<f> }
SumPairs(pairs, f, i, end) ==
    IF i >= end THEN 0 ELSE pairs[i + 1][f] + SumPairs(pairs, f, i + 1, end)

ZeroBucketResult(start, end) ==
    [ID |-> 0, AvgSig |-> [num |-> 0, den |-> 1], AvgRetBps |-> [num |-> 0, den |-> 1],
     Count |-> 0, lo |-> start, hi |-> end]

\* one iteration of the loop over the buckets
QuantBucket(pairs, b, bucketSize, numBuckets, stride) ==
    LET start == b * bucketSize
        end == BucketEnd(b, bucketSize, numBuckets, Len(pairs))
        count == IF end > start THEN end - start ELSE 0
    IN  IF count > 0
        THEN [ID |-> b + 1,
              AvgSig |-> [num |-> SumPairs(pairs, "s", start, end), den |-> count],
              AvgRetBps |-> [num |-> SumPairs(pairs, "r", start, end) * BpsScale, den |-> count],
              Count |-> count * stride, lo |-> start, hi |-> end]
        ELSE ZeroBucketResult(start, end)

\* ComputeQuantilesStrided after the sort; <<>> is nil
QuantBuckets(pairs, numBuckets, stride) ==
    LET subN == Len(pairs)
        bucketSize == IF subN \div numBuckets = 0 THEN 1 ELSE subN \div numBuckets
    IN  [b \in 1..numBuckets |-> QuantBucket(pairs, b - 1, bucketSize, numBuckets, stride)]

QuantInit ==
    /\ uIn \in QuantInputsUpTo(MaxQLen)
    /\ uMid = <<>>
    /\ uOut = <<>>
    /\ uPc = "input"
    /\ CodecIdle
    /\ MomIdle
    /\ StudyIdle
    /\ IngestIdle
    /\ LoadIdle
    /\ RunIdle
    /\ PoolIdle
    /\ ViewIdle
    /\ FinalIdle
    /\ PipeIdle
    /\ ColsIdle
    /\ AggIdle

\* processStudyDay: qMap[hIdx] = ComputeQuantilesStrided(target, rets, NumBuckets, QuantileStride)
ComputeQuantilesStrided ==
    /\ uPc = "input"
    /\ IF Len(uIn.sigs) = 0 \/ uIn.numBuckets <= 0
       THEN /\ uMid' = <<>>
            /\ uOut' = <<>>
            /\ uPc' = "nil"
       ELSE LET pairs == StridePairs(uIn.sigs, uIn.rets, uIn.stride, 0)
            IN  \E sorted \in SortedOrders(pairs, 1..Len(pairs)) :
                    /\ uMid' = sorted
                    /\ uOut' = QuantBuckets(sorted, uIn.numBuckets, uIn.stride)
                    /\ uPc' = "done"
    /\ UNCHANGED <<uIn, notCalc>>

QuantNext == ComputeQuantilesStrided

SpecQuant == QuantInit /\ [][QuantNext]_vars

\* the rows the stride keeps, from the definition (every stride-th row)
SampledRows == { i \in 1..Len(uIn.sigs) : (i - 1) % uIn.stride = 0 }

\* the sorted pairs are the sampled pairs, each once, in ascending order
SampleSorted ==
    /\ Len(uMid) = Cardinality(SampledRows)
    /\ \A i \in SampledRows :
           Cardinality({ k \in 1..Len(uMid) :
                           uMid[k] = [s |-> uIn.sigs[i], r |-> uIn.rets[i]] }) = 1
    /\ \A k \in 1..(Len(uMid) - 1) : uMid[k].s <= uMid[k + 1].s

\* the pairs (positions of the sorted sample) bucket b holds
BucketPairs(b) == { k \in 1..Len(uMid) : uOut[b].lo < k /\ k <= uOut[b].hi }

\* the buckets are contiguous, in order, and hold every pair exactly once
BucketsPartition ==
    /\ Len(uOut) = uIn.numBuckets
    /\ \A k \in 1..Len(uMid) :
           Cardinality({ b \in 1..Len(uOut) : k \in BucketPairs(b) }) = 1
    /\ \A b, c \in 1..Len(uOut) :
           b < c => \A k \in BucketPairs(b), l \in BucketPairs(c) : k < l
    /\ \A b \in 1..Len(uOut) :
           /\ \A k, l \in BucketPairs(b) : \A j \in k..l : j \in BucketPairs(b)
           /\ uOut[b].Count = Cardinality(BucketPairs(b)) * uIn.stride

\* C28: the stride-subsampled pairs, sorted by signal ascending, are split
\* into K contiguous buckets of equal count that hold every sampled pair
\* exactly once, for every sample size.
CX_C28_EqualCountBuckets ==
    (uPc = "done") =>
        /\ SampleSorted
        /\ BucketsPartition
        /\ \A b, c \in 1..Len(uOut) :
               Cardinality(BucketPairs(b)) = Cardinality(BucketPairs(c))

\* C28 (amended): the stride-subsampled pairs, sorted by signal ascending,
\* are split into K contiguous buckets that together hold every sampled
\* pair exactly once, for every sample size m; every bucket before the
\* last holds floor(m / K) pairs (for m < K one pair each until the pairs
\* run out) and the last bucket holds the remaining pairs, so the counts
\* are equal when m is a multiple of K.
T_C28_BucketsHoldEveryPairOnce ==
    (uPc = "done") =>
        LET m == Len(uMid)
            K == uIn.numBuckets
        IN  /\ SampleSorted
            /\ BucketsPartition
            /\ \A b \in 1..(K - 1) :
                   Cardinality(BucketPairs(b)) =
                       IF m >= K THEN m \div K ELSE IF b <= m THEN 1 ELSE 0
            /\ (m % K = 0) =>
                   \A b \in 1..K : Cardinality(BucketPairs(b)) = m \div K

\* a strided sample of 3 pairs, two of them of one signal, in 2 buckets:
\* the last bucket holds 2 pairs, the first 1
W_C28_RemainderInLastBucket ==
    /\ uPc = "done"
    /\ uIn.stride = 2
    /\ uIn.numBuckets = 2
    /\ Len(uMid) = 3
    /\ uMid[1].s = uMid[2].s
    /\ Cardinality(BucketPairs(1)) = 1
    /\ Cardinality(BucketPairs(2)) = 2

\* a sample smaller than K: the last buckets are empty
W_C28_FewerPairsThanBuckets ==
    /\ uPc = "done"
    /\ Len(uMid) = 2
    /\ uIn.numBuckets = 3
    /\ BucketPairs(3) = {}

-----------------------------------------------------------------------------
(* SpecReturns: computeReturns (study.go).  A day's timestamps are in file *)
(* order, non-decreasing; a price is a decoded fixed-point value, positive *)
(* for a trade, 0 for a row without one.  A return is kept as the quotient *)
(* the code computes.  outBuf is the pooled buffer: it holds the returns   *)
(* of the day that used it before.                                         *)

PriceVals == {0, 1, 2}

Quot(num, den) == [num |-> num, den |-> den]
ZeroRet == Quot(0, 1)
StaleRet == Quot(7, 1)

\* the same number
SameRet(x, y) == x.num * y.den = y.num * x.den

RetInputs(n) ==
    { [p |-> p, tm |-> tm, horizonMS |-> h, outBuf |-> [i \in 1..k |-> StaleRet]] :
        p \in [1..n -> PriceVals],
        tm \in { t \in [1..n -> 0..MaxTime] : \A i \in 1..(n - 1) : t[i] <= t[i + 1] },
        h \in 0..MaxHorizon,
        k \in {0, n} }

RetInputsUpTo(m) == UNION { RetInputs(n) : n \in 0..m }

\* the loop condition on the time of row right, taking an equal time too
BeforeOrAt(t, targetTime) == t <= targetTime

\* tm[right] < targetTime
Before(t, targetTime) == t < targetTime

RECURSIVE Advance(_, _, _, _)
\* for right < n && tm[right] < targetTime { right++ }
Advance(tm, n, right, targetTime) ==
    IF right < n /\ Before(tm[right + 1], targetTime)
    THEN Advance(tm, n, right + 1, targetTime)
    ELSE right

\* for k := left; k < n; k++ { outSlice[k] = 0 }
ZeroTail(out, left, n) == [k \in 1..Len(out) |-> IF k > left /\ k <= n THEN ZeroRet ELSE out[k]]

RECURSIVE ReturnsLoop(_, _, _, _, _, _, _)
\* for left := 0; left < n; left++
ReturnsLoop(p, tm, n, hVal, left, right, out) ==
    IF left >= n THEN out
    ELSE LET targetTime == tm[left + 1] + hVal
             r == Advance(tm, n, IF right < left THEN left ELSE right, targetTime)
         IN  IF r >= n THEN ZeroTail(out, left, n)
             ELSE LET pStart == p[left + 1]
                      pEnd == p[r + 1]
                  IN  ReturnsLoop(p, tm, n, hVal, left + 1, r,
                          [out EXCEPT ![left + 1] =
                              IF pStart > 0 THEN Quot(pEnd - pStart, pStart) ELSE ZeroRet])

\* computeReturns: the contents of (*outBuf)[:n] on return
computeReturns(p, tm, n, horizonMS, outBuf) ==
    LET buf == IF n > Len(outBuf) THEN [k \in 1..(n + n \div 4) |-> ZeroRet] ELSE outBuf
    IN  SubSeq(ReturnsLoop(p, tm, n, horizonMS, 0, 0, buf), 1, n)

ReturnsInit ==
    /\ uIn \in RetInputsUpTo(MaxRetLen)
    /\ uMid = <<>>
    /\ uOut = <<>>
    /\ uPc = "input"
    /\ CodecIdle
    /\ MomIdle
    /\ StudyIdle
    /\ IngestIdle
    /\ LoadIdle
    /\ RunIdle
    /\ PoolIdle
    /\ ViewIdle
    /\ FinalIdle
    /\ PipeIdle
    /\ ColsIdle
    /\ AggIdle

\* processStudyDay: computeReturns(p, tm, n, ms, retBuf)
Returns ==
    /\ uPc = "input"
    /\ uOut' = computeReturns(uIn.p, uIn.tm, Len(uIn.tm), uIn.horizonMS, uIn.outBuf)
    /\ uPc' = "returns"
    /\ UNCHANGED <<uIn, uMid, notCalc>>

ReturnsNext == Returns

SpecReturns == ReturnsInit /\ [][ReturnsNext]_vars

\* the rows at or after row i whose time is at or after time[i] + H
RowsAtHorizon(i) ==
    { j \in i..Len(uIn.tm) : uIn.tm[j] >= uIn.tm[i] + uIn.horizonMS }

FirstAtHorizon(i) == CHOOSE j \in RowsAtHorizon(i) : \A k \in RowsAtHorizon(i) : j <= k

\* C29: for every row i of a day with non-decreasing timestamps and every
\* horizon H, the computed forward return is the relative price change
\* from row i to the first row j >= i whose time is at or after
\* time[i] + H (for a row of price 0, where there is no relative change,
\* it is 0); every row for which no such row exists gets return 0.
T_C29_ForwardReturn ==
    (uPc = "returns") =>
        /\ Len(uOut) = Len(uIn.tm)
        /\ \A i \in 1..Len(uIn.tm) :
               IF RowsAtHorizon(i) = {} THEN uOut[i] = ZeroRet
               ELSE IF uIn.p[i] > 0
               THEN SameRet(uOut[i],
                            Quot(uIn.p[FirstAtHorizon(i)] - uIn.p[i], uIn.p[i]))
               ELSE uOut[i] = ZeroRet

\* a day of three rows in a used buffer: the first two rows are of one
\* time and have their horizon row in the third, with a price change from
\* the first; the last row has no horizon row
W_C29_ReturnOverTwoRows ==
    /\ uPc = "returns"
    /\ Len(uIn.tm) = 3
    /\ uIn.outBuf # <<>>
    /\ uIn.horizonMS = 2
    /\ uIn.tm[1] = uIn.tm[2]
    /\ RowsAtHorizon(1) # {}
    /\ FirstAtHorizon(1) = 3
    /\ uIn.p[1] = 1
    /\ uIn.p[3] = 2
    /\ uOut[1] = Quot(1, 1)
    /\ RowsAtHorizon(3) = {}
    /\ uOut[3] = ZeroRet

-----------------------------------------------------------------------------
(* SpecFeat: the feature file of a day, written by processDynamicDay       *)
(* (build.go) and read by processStudyDay (study.go) for the same day, so  *)
(* with the same row count.  A feature value is the float32 the builder    *)
(* stores, kept as its 4 bytes; float64(float32) on the reading side is    *)
(* exact.                                                                  *)

FeatDims == 13
FeatBytes == 4
NameLimit == 255

\* the 4 bytes of the file's magic
AtomHeaderMagic == <<65, 84, 79, 77>>

\* float32 bit patterns of an atom's clamped value: 0 and 1
FeatVals == {0, 1065353216}

\* a day of n rows and d atoms, the atoms' names of one length
FeatInputs(n, d) ==
    { [rowCount |-> n, names |-> [j \in 1..d |-> [k \in 1..l |-> 97]], vals |-> v] :
        l \in 1..MaxNameLen, v \in [1..n -> [1..d -> FeatVals]] }

FeatInputsUpTo(n, d) == UNION { FeatInputs(k, e) : k \in 2..n, e \in 1..d }

RECURSIVE FeatHeaderNames(_)
\* for _, a := range atoms: uint8(len(name)), name (cut to 255 bytes)
FeatHeaderNames(names) ==
    IF names = <<>> THEN <<>>
    ELSE LET name == IF Len(Head(names)) > NameLimit
                     THEN SubSeq(Head(names), 1, NameLimit) ELSE Head(names)
         IN  <<Len(name) % 256>> \o name \o FeatHeaderNames(Tail(names))

\* 2. Prepare Header: Magic(4) + Count(2) + [Len(1) + Str]...
FeatHeader(names) == AtomHeaderMagic \o LE(Len(names) % 65536, 2) \o FeatHeaderNames(names)

RECURSIVE FeatRows(_, _, _)
\* the row loop: the 4 bytes of every atom's value, row after row
FeatRows(vals, i, numAtoms) ==
    IF i > Len(vals) THEN <<>>
    ELSE Flat(vals[i], 4) \o FeatRows(vals, i + 1, numAtoms)

\* processDynamicDay: the bytes given to os.WriteFile
FeatFile(in) == FeatHeader(in.names) \o FeatRows(in.vals, 1, Len(in.names))

\* decodeFeatureDim: out[0:n] for one dim
decodeFeatureDim(raw, n, dims, dim) ==
    IF Len(raw) < n * dims * FeatBytes \/ dim < 0 \/ dim >= dims
    THEN [i \in 1..n |->
             LET offset == ((i - 1) * dims + dim) * FeatBytes
             IN  IF offset + 4 > Len(raw) THEN LE(0, 4) ELSE Bytes(raw, offset, 4)]
    ELSE [i \in 1..n |-> Bytes(raw, ((i - 1) * dims + dim) * FeatBytes, 4)]

\* processStudyDay, one variant: the signal columns it computes metrics of
ReadFeatures(rawSigs, n) ==
    LET byteSize == Len(rawSigs)
        dims == byteSize \div (n * FeatBytes)
    IN  IF byteSize = 0 \/ dims < 1 \/ dims > FeatDims
        THEN [used |-> FALSE, dims |-> 0, cols |-> <<>>]
        ELSE [used |-> TRUE, dims |-> dims,
              cols |-> [d \in 1..dims |-> decodeFeatureDim(rawSigs, n, dims, d - 1)]]

FeatInit ==
    /\ uIn \in FeatInputsUpTo(MaxFeatRows, MaxAtoms)
    /\ uMid = <<>>
    /\ uOut = <<>>
    /\ uPc = "input"
    /\ CodecIdle
    /\ MomIdle
    /\ StudyIdle
    /\ IngestIdle
    /\ LoadIdle
    /\ RunIdle
    /\ PoolIdle
    /\ ViewIdle
    /\ FinalIdle
    /\ PipeIdle
    /\ ColsIdle
    /\ AggIdle

\* processDynamicDay
BuildFeatures ==
    /\ uPc = "input"
    /\ uMid' = FeatFile(uIn)
    /\ uPc' = "built"
    /\ UNCHANGED <<uIn, uOut, notCalc>>

\* processStudyDay: fastLoadBytes, dims, decodeFeatureDim for every dim
StudyFeatures ==
    /\ uPc = "built"
    /\ uOut' = ReadFeatures(uMid, uIn.rowCount)
    /\ uPc' = "read"
    /\ UNCHANGED <<uIn, uMid, notCalc>>

FeatNext == BuildFeatures \/ StudyFeatures

SpecFeat == FeatInit /\ [][FeatNext]_vars

\* C30: the value the analysis stage uses for (row i, feature j) is the
\* value the builder wrote for (row i, feature j), for every row and
\* feature of a feature file.
CX_C30_FeatureRoundTrip ==
    (uPc = "read") =>
        /\ uOut.used
        /\ uOut.dims = Len(uIn.names)
        /\ \A i \in 1..uIn.rowCount : \A j \in 1..Len(uIn.names) :
               uOut.cols[j][i] = LE(uIn.vals[i][j], 4)

\* what the reader does: it takes the whole file for values, so its
\* (row 0, feature 0) is the magic and its feature count is that of a file
\* of byteSize / (n * 4) values per row
FeatureReaderTakesHeaderForValues ==
    (uPc = "read") =>
        /\ uOut.used
        /\ uOut.cols[1][1] = AtomHeaderMagic
        /\ uOut.dims = (Len(FeatHeader(uIn.names)) + uIn.rowCount * Len(uIn.names) * 4)
                           \div (uIn.rowCount * 4)

====
